---- MODULE Spec2Model ----
(***************************************************************************)
(* A model of cloudsql-postgres-operator: the admission pipeline for       *)
(* PostgresqlInstance resources, the status-condition helper, the drift    *)
(* check and the reconcile pass of the PostgresqlInstance controller.      *)
(*                                                                         *)
(* The module holds several specifications over one set of variables:      *)
(*   SpecCond       setPostgresqlInstanceCondition applied repeatedly      *)
(*   SpecAdmission  validateAndMutatePostgresqlInstance on a stored object *)
(*   SpecHours      the same, for the hours of the day a spec may hold      *)
(*   SpecHTTP       handleAdmission on the HTTP requests of the endpoint    *)
(*   SpecPod        mutatePod on the pods created in a namespace            *)
(*   SpecDrift      maybeUpdateInstance against observed remote settings   *)
(*   Spec           processQueueItem, one step per external call,          *)
(*                  interleaved with the user and the remote API           *)
(* A specification leaves the variables of the others at their initial     *)
(* values.                                                                 *)
(***************************************************************************)
EXTENDS Integers, Sequences, FiniteSets, TLC

VARIABLES
    \* SpecCond: status.conditions of one resource, the clock, and whether the
    \* last call kept a status it found, later than its transition time
    cConds, cNow, cLast,
    \* SpecAdmission: the stored resource (nil: none), the admission request
    \* being handled and the response to the last request handled
    aStored, aReq, aResp,
    \* SpecDrift: the resource, the remote instance, the conditions of the
    \* resource, the settings in which the instance that the last pass read
    \* differed from the desired ones, the instance that pass submitted
    \* (nil: none), how its update call ended ("none": no call; "idle": no
    \* pass since the last change) and how many passes in a row (counted up
    \* to two) have issued no update, and how the update call of the pass
    \* before the last one ended
    dSpec, dRemote, dConds, dDrifted, dSubmitted, dCall, dQuiet, dPrev,
    \* Spec: the resource in the store (nil: none), the remote instance with
    \* the status of its last operation (nil: none), the password stored in
    \* the secret (nil: no secret; 0: empty) and the one of the remote user
    rStore, rRemote, rSecret, rRemotePw,
    \* the worker: where it is in processQueueItem, the resource it read (i),
    \* its working copy (p), the instance it read, the password it generated
    \* and whether the last pass ended with an error
    rPc, rI, rP, rInst, rPw, rErr,
    \* the calls made in the pass, each with how it ended; how many creations
    \* were requested, passwords set and calls failed; and whether the
    \* password of the secret was ever emptied by someone else
    rLog, rCreates, rPwSets, rFails, rCleared,
    \* SpecPod: the PostgresqlInstance, its secret and the namespace-local
    \* secret as stored (nil: none), the pod of the request being handled,
    \* the response to the last request handled and how every request
    \* handled so far ended
    pStore, pReq, pResp, pLog,
    \* SpecHTTP: the HTTP request being handled (nil: none) and what the
    \* endpoint did with the last one
    hReq, hRes,
    \* SpecBoot: the TLS secret and the webhook configuration as stored (nil:
    \* none), where every replica of the operator is in Register, and how
    \* many times the secret and the configuration were written
    tlsSecret, whCfg, boot, tlsWrites, whWrites,
    \* SpecNames: the resources stored, by the name of the resource (nil:
    \* none), the names of the instances that exist in the remote API, and
    \* the last CREATE request handed to the webhook with its answer
    nStored, nRemote, nResp

condVars == <<cConds, cNow, cLast>>
admVars == <<aStored, aReq, aResp>>
driftVars == <<dSpec, dRemote, dConds, dDrifted, dSubmitted, dCall, dQuiet, dPrev>>

rEnv == <<rStore, rRemote, rSecret, rRemotePw>>
rLocals == <<rI, rP, rInst, rPw>>
rHist == <<rCreates, rPwSets, rFails, rCleared>>
reconVars == <<rEnv, rPc, rLocals, rErr, rLog, rHist>>

podVars == <<pStore, pReq, pResp, pLog>>
httpVars == <<hReq, hRes>>
bootVars == <<tlsSecret, whCfg, boot, tlsWrites, whWrites>>
namesVars == <<nStored, nRemote, nResp>>

vars == <<condVars, admVars, driftVars, reconVars, podVars, httpVars, bootVars,
          namesVars>>

\* The variables that a specification leaves alone.
notCond ==
    <<admVars, driftVars, reconVars, podVars, httpVars, bootVars, namesVars>>
notAdm ==
    <<condVars, driftVars, reconVars, podVars, httpVars, bootVars, namesVars>>
notDrift ==
    <<condVars, admVars, reconVars, podVars, httpVars, bootVars, namesVars>>
notRecon ==
    <<condVars, admVars, driftVars, podVars, httpVars, bootVars, namesVars>>
notPod ==
    <<condVars, admVars, driftVars, reconVars, httpVars, bootVars, namesVars>>
\* SpecHTTP hands the requests it decodes to the admission pipeline, which
\* reads and writes the stored object.
notHTTP ==
    <<aReq, aResp, condVars, driftVars, reconVars, podVars, bootVars, namesVars>>
notBoot == <<condVars, admVars, driftVars, reconVars, podVars, httpVars, namesVars>>
notNames == <<condVars, admVars, driftVars, reconVars, podVars, httpVars, bootVars>>

-----------------------------------------------------------------------------
(* Bounds of the model *)

\* time.Now() takes values 0..MaxClock
MaxClock == 1

\* the ports the proxy may be given are the first PortCount of the range
PortCount == 3

\* at most MaxPodRequests pod creations are handled
MaxPodRequests == 3

\* a pod sent to the webhook has at most MaxContainers containers
MaxContainers == 3

\* How many replicas of the operator there are, and how many times each of
\* them starts.
ReplicaCount == 2
MaxStarts == 2

-----------------------------------------------------------------------------
(* Values of the API types *)


ConditionTypeCreated == "Created"
ConditionTypeReady == "Ready"
ConditionTypeUpToDate == "UpToDate"
ConditionTypes == {ConditionTypeCreated, ConditionTypeReady, ConditionTypeUpToDate}

ConditionTrue == "True"
ConditionFalse == "False"
ConditionUnknown == "Unknown"
ConditionStatuses == {ConditionTrue, ConditionFalse, ConditionUnknown}

\* The reasons of conditions and events.
Reason ==
    [ Conflict |-> "Conflict",
      InstanceCreated |-> "InstanceCreated",
      InstanceNotReady |-> "InstanceNotReady",
      InstanceReady |-> "InstanceReady",
      InstanceUpdated |-> "InstanceUpdated",
      InstanceUpToDate |-> "InstanceUpToDate",
      InvalidSpec |-> "InvalidSpec",
      NameUnavailable |-> "NameUnavailable",
      OperationInProgress |-> "OperationInProgress",
      UnexpectedError |-> "UnexpectedError" ]

-----------------------------------------------------------------------------
(* status.conditions: setPostgresqlInstanceCondition *)

\* The index of the first condition of type t at or after idx, 0 when none.
RECURSIVE FindCondition(_, _, _)
FindCondition(conds, t, idx) ==
    IF idx > Len(conds) THEN 0
    ELSE IF conds[idx].type = t THEN idx
    ELSE FindCondition(conds, t, idx + 1)

NewCondition(t, s, r, m, now) ==
    [type |-> t, status |-> s, reason |-> r, message |-> m,
     lastTransitionTime |-> now]

\* A plausible slip: the transition time is always set to the current time.
setPostgresqlInstanceConditionAlwaysNow(conds, t, s, r, m, now) ==
    LET idx == FindCondition(conds, t, 1)
    IN IF idx = 0 THEN Append(conds, NewCondition(t, s, r, m, now))
       ELSE [conds EXCEPT ![idx] = NewCondition(t, s, r, m, now)]

setPostgresqlInstanceCondition(conds, t, s, r, m, now) ==
    LET idx == FindCondition(conds, t, 1)
    IN IF idx = 0
       THEN Append(conds, NewCondition(t, s, r, m, now))
       ELSE [conds EXCEPT ![idx] =
                IF conds[idx].status = s
                THEN NewCondition(t, s, r, m, conds[idx].lastTransitionTime)
                ELSE NewCondition(t, s, r, m, now)]

HasCondition(conds, t) == FindCondition(conds, t, 1) # 0
GetCondition(conds, t) == conds[FindCondition(conds, t, 1)]
CountConditions(conds, t) ==
    Cardinality({k \in 1..Len(conds) : conds[k].type = t})

\* The condition of type t has status s and reason r.
ConditionIs(conds, t, s, r) ==
    /\ HasCondition(conds, t)
    /\ GetCondition(conds, t).status = s
    /\ GetCondition(conds, t).reason = r

-----------------------------------------------------------------------------
(* Pointers: a nil pointer is the empty tuple, a pointer to v is <<v>> *)

NilPtr == <<>>
Ptr(v) == <<v>>
IsNil(p) == p = <<>>
Deref(p) == p[1]

-----------------------------------------------------------------------------
(* The admission pipeline for PostgresqlInstance resources *)

AllowDeletionAnnotationKey == "cloudsql.travelaudience.com/allow-deletion"
ApplicationName == "cloudsql-postgres-operator"
PostgresqlInstanceSpecLabelsOwnerName == "owner"
True == "true"
False == "false"
ValueAny == "Any"

postgresqlInstanceSpecResourcesDiskSizeMinimumGbLowerBound == 10
postgresqlInstanceSpecNameProjectIDMaxLength == 97

\* The defaults of the fields of the spec of a PostgresqlInstance.
PostgresqlInstanceSpecDefault ==
    [ AvailabilityType |-> "Zonal",
      BackupsDailyEnabled |-> TRUE,
      BackupsDailyStartTime |-> "00:00",
      LocationRegion |-> "europe-west1",
      LocationZone |-> ValueAny,
      MaintenanceDay |-> ValueAny,
      MaintenanceHour |-> "04:00",
      NetworkingPrivateIPEnabled |-> FALSE,
      NetworkingPrivateIPNetwork |-> "",
      NetworkingPublicIPEnabled |-> FALSE,
      ResourcesDiskSizeMaximumGb |-> 0,
      ResourcesDiskSizeMinimumGb |-> 10,
      ResourcesDiskType |-> "SSD",
      ResourcesInstanceType |-> "db-custom-1-3840",
      Version |-> "9.6" ]

\* The strings hourOfTheDayRegex, ^([01][0-9]|2[03]):00$, matches.
hourOfTheDayRegex ==
    { "00:00", "01:00", "02:00", "03:00", "04:00", "05:00", "06:00", "07:00",
      "08:00", "09:00", "10:00", "11:00", "12:00", "13:00", "14:00", "15:00",
      "16:00", "17:00", "18:00", "19:00", "20:00", "23:00" }

MaintenanceDays ==
    { ValueAny, "Monday", "Tuesday", "Wednesday", "Thursday", "Friday", "Saturday",
      "Sunday" }

\* The instance names of the model: whether postgresqlInstanceSpecNameRegex,
\* ^[a-z][a-z0-9-]+[a-z0-9]$, matches each, and its length.
NameMatchesRegex == { "db-a", "db-b", "db-long" }
NameLength == [n \in {"", "db-a", "db-b", "Db_A", "db-long"} |->
                 CASE n = "" -> 0
                   [] n = "db-long" -> 90
                   [] OTHER -> 4]
\* len(w.projectID) of the model's project.
ProjectIDLength == 10

\* The flags of the model, each with the number of parts strings.Split gives.
FlagParts == [f \in {"a=b", "ab", "a=b=c"} |->
                CASE f = "a=b" -> 2 [] f = "ab" -> 1 [] OTHER -> 3]

\* The errors of the admission of a PostgresqlInstance (None: no error;
\* Panic: a nil pointer dereference, the handler panics and the request
\* fails).
Err ==
    [ None |->
          "",
      Panic |->
          "panic: nil pointer dereference",
      Delete |->
          "the resource cannot be deleted unless the cloudsql.travelaudience.com/allow-deletion annotation is set to true",
      Availability |->
          "the availability type of the instance must be one of Regional or Zonal",
      BackupStartTime |->
          "the start time for daily backups of the instance must be a valid hour of the day in 24-hour format",
      Flags |->
          "flags must be specified in the <name>=<value> format",
      RegionChanged |->
          "the region where the instance is located cannot be changed",
      MaintenanceDay |->
          "the day of the week for periodic maintenance must be Any or a valid weekday",
      MaintenanceHour |->
          "the hour of the day for periodic maintenance must be Any or a valid hour of the day in 24-hour format",
      NameChanged |->
          "the name of the instance cannot be changed",
      NameEmpty |->
          "the name of the instance cannot be empty",
      NameRegex |->
          "the name of the instance must match the regular expression",
      NameLength |->
          "the name of the instance must not exceed the maximum length",
      NameInUse |->
          "the name is already in use by an instance",
      NameLookup |->
          "failed to check whether the name can be used as an instance name",
      PrivateIPDisabled |->
          "private ip access to the instance cannot be disabled after having been enabled",
      NetworkRemoved |->
          "the resource link of the vpc network for the instance cannot be removed",
      NoIPAccess |->
          "at least one of private or public ip access to the instance must be enabled",
      NetworkEmpty |->
          "the resource link of the vpc network for the instance cannot be empty",
      DiskSizeDecreased |->
          "the minimum disk size for the instance cannot be decreased",
      DiskTypeChanged |->
          "the disk type for the instance cannot be changed",
      DiskSizeMinimum |->
          "the minimum disk size in gb for the instance is 10",
      DiskSizeMaximum |->
          "the maximum disk size in gb for the instance must be 0 or at least the minimum",
      DiskType |->
          "the disk type for the instance must be one of HDD or SSD",
      VersionChanged |->
          "the version of the instance cannot be changed",
      Version |->
          "the version of the instance must be 9.6" ]

\* A PostgresqlInstance as the admission pipeline sees it.  anno is the value
\* of the allow-deletion annotation (nil: absent); a pointer field is nil or
\* points to its value; flags and labels are nil or hold a list / a map.
\* A nil intermediate struct (spec.location, ...) is a nil leaf here.
ObjectFields ==
    { "anno", "availType", "backupEnabled", "backupStart", "flags", "labels",
      "region", "zone", "maintDay", "maintHour", "name", "privEnabled",
      "privNetwork", "pubEnabled", "authNets", "sizeMax", "sizeMin",
      "diskType", "instanceType", "version", "paused" }

Ok(m) == [obj |-> m, err |-> Err.None]
Fail(m, e) == [obj |-> m, err |-> e]

\* If the pointer field f of m is nil, point it to the default d.
Default(m, f, d) == IF IsNil(m[f]) THEN [m EXCEPT ![f] = Ptr(d)] ELSE m

\* A plausible slip: an empty annotation is left as it is.
mutatePostgresqlInstanceMetadataAnnotationsOnlyAbsent(m, prev) ==
    Ok(IF IsNil(m.anno) THEN [m EXCEPT !.anno = Ptr(False)] ELSE m)

mutatePostgresqlInstanceMetadataAnnotations(m, prev) ==
    Ok(IF IsNil(m.anno) \/ m.anno = Ptr("")
       THEN [m EXCEPT !.anno = Ptr(False)]
       ELSE m)

validateAndMutatePostgresqlInstanceSpecAvailability(m, prev) ==
    LET d == Default(m, "availType", PostgresqlInstanceSpecDefault.AvailabilityType)
    IN IF Deref(d.availType) \in {"Regional", "Zonal"}
       THEN Ok(d) ELSE Fail(d, Err.Availability)

validateAndMutatePostgresqlInstanceSpecDailyBackups(m, prev) ==
    LET d == Default(Default(m, "backupEnabled", PostgresqlInstanceSpecDefault.BackupsDailyEnabled),
                     "backupStart", PostgresqlInstanceSpecDefault.BackupsDailyStartTime)
    IN IF Deref(d.backupStart) \in hourOfTheDayRegex
       THEN Ok(d) ELSE Fail(d, Err.BackupStartTime)

validateAndMutatePostgresqlInstanceSpecFlags(m, prev) ==
    LET d == Default(m, "flags", <<>>)
        fl == Deref(d.flags)
    IN IF \A k \in 1..Len(fl) : FlagParts[fl[k]] = 2
       THEN Ok(d) ELSE Fail(d, Err.Flags)

\* The owner label is set whatever the map held.
validateAndMutatePostgresqlInstanceSpecLabels(m, prev) ==
    LET old == IF IsNil(m.labels) THEN << >> ELSE Deref(m.labels)
        keys == (IF IsNil(m.labels) THEN {} ELSE DOMAIN old)
                    \cup {PostgresqlInstanceSpecLabelsOwnerName}
    IN Ok([m EXCEPT !.labels =
              Ptr([k \in keys |->
                     IF k = PostgresqlInstanceSpecLabelsOwnerName
                     THEN ApplicationName ELSE old[k]])])

validateAndMutatePostgresqlInstanceSpecLocation(m, prev) ==
    LET d == Default(Default(m, "region", PostgresqlInstanceSpecDefault.LocationRegion),
                     "zone", PostgresqlInstanceSpecDefault.LocationZone)
    IN IF ~IsNil(prev) /\ ~IsNil(Deref(prev).region)
          /\ Deref(d.region) # Deref(Deref(prev).region)
       THEN Fail(d, Err.RegionChanged) ELSE Ok(d)

validateAndMutatePostgresqlInstanceSpecMaintenance(m, prev) ==
    LET d == Default(Default(m, "maintDay", PostgresqlInstanceSpecDefault.MaintenanceDay),
                     "maintHour", PostgresqlInstanceSpecDefault.MaintenanceHour)
    IN IF Deref(d.maintDay) \notin MaintenanceDays THEN Fail(d, Err.MaintenanceDay)
       ELSE IF Deref(d.maintHour) = ValueAny \/ Deref(d.maintHour) \in hourOfTheDayRegex
       THEN Ok(d) ELSE Fail(d, Err.MaintenanceHour)

\* lookup is the answer of Instances.Get for spec.name, asked on CREATE only:
\* "found", "notfound" or "error".
\* A plausible slip: the instance is looked up on UPDATE as well.
validatePostgresqlInstanceSpecNameAlwaysLookup(m, prev, lookup) ==
    IF ~IsNil(prev) /\ m.name # Deref(prev).name THEN Fail(m, Err.NameChanged)
    ELSE IF m.name = "" THEN Fail(m, Err.NameEmpty)
    ELSE IF m.name \notin NameMatchesRegex THEN Fail(m, Err.NameRegex)
    ELSE IF NameLength[m.name] + ProjectIDLength
                > postgresqlInstanceSpecNameProjectIDMaxLength
    THEN Fail(m, Err.NameLength)
    ELSE IF lookup = "found" THEN Fail(m, Err.NameInUse)
    ELSE IF lookup # "notfound" THEN Fail(m, Err.NameLookup)
    ELSE Ok(m)

validatePostgresqlInstanceSpecName(m, prev, lookup) ==
    IF ~IsNil(prev) /\ m.name # Deref(prev).name THEN Fail(m, Err.NameChanged)
    ELSE IF m.name = "" THEN Fail(m, Err.NameEmpty)
    ELSE IF m.name \notin NameMatchesRegex THEN Fail(m, Err.NameRegex)
    ELSE IF NameLength[m.name] + ProjectIDLength
                > postgresqlInstanceSpecNameProjectIDMaxLength
    THEN Fail(m, Err.NameLength)
    ELSE IF IsNil(prev)
    THEN (IF lookup = "found" THEN Fail(m, Err.NameInUse)
          ELSE IF lookup # "notfound" THEN Fail(m, Err.NameLookup)
          ELSE Ok(m))
    ELSE Ok(m)

\* The defaults of the networking step.
NetworkingDefaults(m) ==
    Default(Default(Default(Default(m,
        "privEnabled", PostgresqlInstanceSpecDefault.NetworkingPrivateIPEnabled),
        "privNetwork", PostgresqlInstanceSpecDefault.NetworkingPrivateIPNetwork),
        "pubEnabled", PostgresqlInstanceSpecDefault.NetworkingPublicIPEnabled),
        "authNets", <<>>)

\* A plausible slip: nothing requires an IP family to be enabled.
validateAndMutatePostgresqlInstanceSpecNetworkingNoAccessCheck(m, prev) ==
    LET d == NetworkingDefaults(m)
    IN IF ~IsNil(prev) /\ Deref(Deref(prev).privEnabled) /\ ~Deref(d.privEnabled)
       THEN Fail(d, Err.PrivateIPDisabled)
       ELSE IF ~IsNil(prev) /\ Deref(Deref(prev).privNetwork) # ""
               /\ Deref(d.privNetwork) = ""
       THEN Fail(d, Err.NetworkRemoved)
       ELSE IF Deref(d.privEnabled) /\ Deref(d.privNetwork) = ""
       THEN Fail(d, Err.NetworkEmpty)
       ELSE Ok(d)

\* A plausible slip: the previous object is not looked at.
validateAndMutatePostgresqlInstanceSpecNetworkingNoPrevious(m, prev) ==
    LET d == NetworkingDefaults(m)
    IN IF ~Deref(d.privEnabled) /\ ~Deref(d.pubEnabled)
       THEN Fail(d, Err.NoIPAccess)
       ELSE IF Deref(d.privEnabled) /\ Deref(d.privNetwork) = ""
       THEN Fail(d, Err.NetworkEmpty)
       ELSE Ok(d)

validateAndMutatePostgresqlInstanceSpecNetworking(m, prev) ==
    LET d == NetworkingDefaults(m)
    IN IF ~IsNil(prev) /\ Deref(Deref(prev).privEnabled) /\ ~Deref(d.privEnabled)
       THEN Fail(d, Err.PrivateIPDisabled)
       ELSE IF ~IsNil(prev) /\ Deref(Deref(prev).privNetwork) # ""
               /\ Deref(d.privNetwork) = ""
       THEN Fail(d, Err.NetworkRemoved)
       ELSE IF ~Deref(d.privEnabled) /\ ~Deref(d.pubEnabled)
       THEN Fail(d, Err.NoIPAccess)
       ELSE IF Deref(d.privEnabled) /\ Deref(d.privNetwork) = ""
       THEN Fail(d, Err.NetworkEmpty)
       ELSE Ok(d)

\* A plausible slip: the checks against the previous object are left out.
validateAndMutatePostgresqlInstanceSpecResourcesNoPrevious(m, prev) ==
    LET d == Default(Default(Default(Default(m,
                 "sizeMax", PostgresqlInstanceSpecDefault.ResourcesDiskSizeMaximumGb),
                 "sizeMin", PostgresqlInstanceSpecDefault.ResourcesDiskSizeMinimumGb),
                 "diskType", PostgresqlInstanceSpecDefault.ResourcesDiskType),
                 "instanceType", PostgresqlInstanceSpecDefault.ResourcesInstanceType)
    IN IF Deref(d.sizeMin) < postgresqlInstanceSpecResourcesDiskSizeMinimumGbLowerBound
       THEN Fail(d, Err.DiskSizeMinimum)
       ELSE IF Deref(d.sizeMax) # 0 /\ Deref(d.sizeMax) < Deref(d.sizeMin)
       THEN Fail(d, Err.DiskSizeMaximum)
       ELSE IF Deref(d.diskType) \notin {"HDD", "SSD"}
       THEN Fail(d, Err.DiskType)
       ELSE Ok(d)

validateAndMutatePostgresqlInstanceSpecResources(m, prev) ==
    LET d == Default(Default(Default(Default(m,
                 "sizeMax", PostgresqlInstanceSpecDefault.ResourcesDiskSizeMaximumGb),
                 "sizeMin", PostgresqlInstanceSpecDefault.ResourcesDiskSizeMinimumGb),
                 "diskType", PostgresqlInstanceSpecDefault.ResourcesDiskType),
                 "instanceType", PostgresqlInstanceSpecDefault.ResourcesInstanceType)
    IN IF ~IsNil(prev) /\ Deref(d.sizeMin) < Deref(Deref(prev).sizeMin)
       THEN Fail(d, Err.DiskSizeDecreased)
       ELSE IF ~IsNil(prev) /\ Deref(Deref(prev).diskType) # Deref(d.diskType)
       THEN Fail(d, Err.DiskTypeChanged)
       ELSE IF Deref(d.sizeMin) < postgresqlInstanceSpecResourcesDiskSizeMinimumGbLowerBound
       THEN Fail(d, Err.DiskSizeMinimum)
       ELSE IF Deref(d.sizeMax) # 0 /\ Deref(d.sizeMax) < Deref(d.sizeMin)
       THEN Fail(d, Err.DiskSizeMaximum)
       ELSE IF Deref(d.diskType) \notin {"HDD", "SSD"}
       THEN Fail(d, Err.DiskType)
       ELSE Ok(d)

\* On UPDATE the version is compared before it is defaulted: a request
\* without a version dereferences a nil pointer.
validateAndMutatePostgresqlInstanceSpecVersion(m, prev) ==
    IF ~IsNil(prev) /\ (IsNil(m.version) \/ IsNil(Deref(prev).version))
    THEN Fail(m, Err.Panic)
    ELSE IF ~IsNil(prev) /\ Deref(m.version) # Deref(Deref(prev).version)
    THEN Fail(m, Err.VersionChanged)
    ELSE LET d == Default(m, "version", PostgresqlInstanceSpecDefault.Version)
         IN IF Deref(d.version) = "9.6" THEN Ok(d) ELSE Fail(d, Err.Version)

\* The k-th validation/mutation step of the pipeline.
PipelineStep(k, m, prev, lookup) ==
    CASE k = 1 -> mutatePostgresqlInstanceMetadataAnnotations(m, prev)
      [] k = 2 -> validateAndMutatePostgresqlInstanceSpecAvailability(m, prev)
      [] k = 3 -> validateAndMutatePostgresqlInstanceSpecDailyBackups(m, prev)
      [] k = 4 -> validateAndMutatePostgresqlInstanceSpecFlags(m, prev)
      [] k = 5 -> validateAndMutatePostgresqlInstanceSpecLabels(m, prev)
      [] k = 6 -> validateAndMutatePostgresqlInstanceSpecLocation(m, prev)
      [] k = 7 -> validateAndMutatePostgresqlInstanceSpecMaintenance(m, prev)
      [] k = 8 -> validatePostgresqlInstanceSpecName(m, prev, lookup)
      [] k = 9 -> validateAndMutatePostgresqlInstanceSpecNetworking(m, prev)
      [] k = 10 -> validateAndMutatePostgresqlInstanceSpecResources(m, prev)
      [] k = 11 -> validateAndMutatePostgresqlInstanceSpecVersion(m, prev)

PipelineLength == 11

\* The loop over the steps: the first error ends it.
RECURSIVE RunPipeline(_, _, _, _)
RunPipeline(k, m, prev, lookup) ==
    IF k > PipelineLength THEN Ok(m)
    ELSE LET r == PipelineStep(k, m, prev, lookup)
         IN IF r.err # Err.None THEN r
            ELSE RunPipeline(k + 1, r.obj, prev, lookup)

\* A plausible slip: any non-empty value of the annotation allows deletion.
DeleteAllowedAnyValue(prev) ==
    ~IsNil(Deref(prev).anno) /\ Deref(prev).anno # Ptr("")

\* The DELETE case: the annotation must exist and hold "true".
DeleteAllowed(prev) ==
    ~(IsNil(Deref(prev).anno) \/ Deref(Deref(prev).anno) # True)

\* validateAndMutatePostgresqlInstance: current is nil on DELETE, previous is
\* nil on CREATE.  The result holds the mutated object (nil on DELETE and on
\* error) and the error.
validateAndMutatePostgresqlInstance(current, prev, lookup) ==
    IF IsNil(current) /\ ~IsNil(prev)
    THEN (IF DeleteAllowed(prev)
          THEN [obj |-> NilPtr, err |-> Err.None]
          ELSE [obj |-> NilPtr, err |-> Err.Delete])
    ELSE LET r == RunPipeline(1, Deref(current), prev, lookup)
         IN IF r.err # Err.None THEN [obj |-> NilPtr, err |-> r.err]
            ELSE [obj |-> Ptr(r.obj), err |-> Err.None]

\* A plausible slip: the patch replaces every field, changed or not.
CreateRFC6902PatchWholeObject(old, new) == ObjectFields

\* CreateRFC6902Patch: the fields in which the new object differs from the
\* old one (the patch is empty when there is none).
CreateRFC6902Patch(old, new) == {f \in ObjectFields : old[f] # new[f]}

\* What a client sends on CREATE when it leaves out all it may leave out.
BaseObject ==
    [ anno |-> NilPtr, availType |-> NilPtr, backupEnabled |-> NilPtr,
      backupStart |-> NilPtr, flags |-> NilPtr, labels |-> NilPtr,
      region |-> NilPtr, zone |-> NilPtr, maintDay |-> NilPtr,
      maintHour |-> NilPtr, name |-> "db-a", privEnabled |-> NilPtr,
      privNetwork |-> NilPtr, pubEnabled |-> Ptr(TRUE), authNets |-> NilPtr,
      sizeMax |-> NilPtr, sizeMin |-> NilPtr, diskType |-> NilPtr,
      instanceType |-> NilPtr, version |-> NilPtr, paused |-> FALSE ]

ApplyEdit(obj, e) == [obj EXCEPT ![e[1]] = e[2]]

\* The resource stored when the base object is created.
AdmittedBase == RunPipeline(1, BaseObject, NilPtr, "notfound").obj

-----------------------------------------------------------------------------
(* The settings of the remote instance derived from a resource, and the
   correction of the drift between them and the settings observed *)

\* strings.ToUpper of the availability types.
AvailabilityTypeAPIValue(t) ==
    CASE t = "Zonal" -> "ZONAL" [] t = "Regional" -> "REGIONAL"

\* The name and the value strings.Split finds in a well-formed flag.
FlagNameValue == [f \in {"a=b"} |-> [name |-> "a", value |-> "b"]]

\* Flags.APIValue: nil when there is no flag; malformed flags are skipped.
RECURSIVE FlagsList(_)
FlagsList(flags) ==
    IF flags = <<>> THEN <<>>
    ELSE IF FlagParts[Head(flags)] # 2 THEN FlagsList(Tail(flags))
    ELSE <<FlagNameValue[Head(flags)]>> \o FlagsList(Tail(flags))

FlagsAPIValue(flags) ==
    IF Len(flags) = 0 THEN NilPtr ELSE Ptr(FlagsList(flags))

ZoneAPIValue(z) == IF z = ValueAny THEN "" ELSE z

MaintenanceDayAPIValue(d) ==
    CASE d = "Monday" -> 1 [] d = "Tuesday" -> 2 [] d = "Wednesday" -> 3
      [] d = "Thursday" -> 4 [] d = "Friday" -> 5 [] d = "Saturday" -> 6
      [] OTHER -> 7

\* strconv.ParseInt of the hour without its ":00" suffix; 0 when it fails.
MaintenanceHourAPIValue(h) ==
    CASE h = "00:00" -> 0 [] h = "01:00" -> 1 [] h = "02:00" -> 2
      [] h = "03:00" -> 3 [] h = "04:00" -> 4 [] h = "05:00" -> 5
      [] h = "06:00" -> 6 [] h = "07:00" -> 7 [] h = "08:00" -> 8
      [] h = "09:00" -> 9 [] h = "10:00" -> 10 [] h = "11:00" -> 11
      [] h = "12:00" -> 12 [] h = "13:00" -> 13 [] h = "14:00" -> 14
      [] h = "15:00" -> 15 [] h = "16:00" -> 16 [] h = "17:00" -> 17
      [] h = "18:00" -> 18 [] h = "19:00" -> 19 [] h = "20:00" -> 20
      [] h = "21:00" -> 21 [] h = "22:00" -> 22 [] h = "23:00" -> 23
      [] OTHER -> 0

\* AuthorizedNetworks.APIValue: a slice that is never nil.
AuthorizedNetworksAPIValue(nets) == Ptr(nets)

DiskTypeAPIValue(t) == IF t = "HDD" THEN "PD_HDD" ELSE "PD_SSD"

VersionAPIValue(v) == IF v = "9.6" THEN "POSTGRES_9_6" ELSE ""

SettingsFields ==
    { "availabilityType", "backupEnabled", "backupStartTime", "databaseFlags",
      "dataDiskSizeGb", "dataDiskType", "authorizedNetworks", "ipv4Enabled",
      "privateNetwork", "zone", "maintenanceDay", "maintenanceHour",
      "storageAutoResize", "storageAutoResizeLimit", "tier", "userLabels" }

buildDatabaseInstanceSettingsZeroDisables(o) ==
    LET anyDay == Deref(o.maintDay) = ValueAny
        fixedSize == Deref(o.sizeMax) = Deref(o.sizeMin) \/ Deref(o.sizeMax) = 0
    IN [ availabilityType |-> AvailabilityTypeAPIValue(Deref(o.availType)),
         backupEnabled |-> Deref(o.backupEnabled),
         backupStartTime |-> Deref(o.backupStart),
         databaseFlags |-> FlagsAPIValue(Deref(o.flags)),
         dataDiskSizeGb |-> Deref(o.sizeMin),
         dataDiskType |-> DiskTypeAPIValue(Deref(o.diskType)),
         authorizedNetworks |-> AuthorizedNetworksAPIValue(Deref(o.authNets)),
         ipv4Enabled |-> Deref(o.pubEnabled),
         privateNetwork |-> IF Deref(o.privEnabled) THEN Deref(o.privNetwork) ELSE "",
         zone |-> ZoneAPIValue(Deref(o.zone)),
         maintenanceDay |-> IF anyDay THEN 0 ELSE MaintenanceDayAPIValue(Deref(o.maintDay)),
         maintenanceHour |-> IF anyDay THEN 0 ELSE MaintenanceHourAPIValue(Deref(o.maintHour)),
         storageAutoResize |-> ~fixedSize,
         storageAutoResizeLimit |-> IF fixedSize THEN 0 ELSE Deref(o.sizeMax),
         tier |-> Deref(o.instanceType),
         userLabels |-> Deref(o.labels) ]

buildDatabaseInstanceSettings(o) ==
    LET anyDay == Deref(o.maintDay) = ValueAny
        fixedSize == Deref(o.sizeMax) = Deref(o.sizeMin)
    IN [ availabilityType |-> AvailabilityTypeAPIValue(Deref(o.availType)),
         backupEnabled |-> Deref(o.backupEnabled),
         backupStartTime |-> Deref(o.backupStart),
         databaseFlags |-> FlagsAPIValue(Deref(o.flags)),
         dataDiskSizeGb |-> Deref(o.sizeMin),
         dataDiskType |-> DiskTypeAPIValue(Deref(o.diskType)),
         authorizedNetworks |-> AuthorizedNetworksAPIValue(Deref(o.authNets)),
         ipv4Enabled |-> Deref(o.pubEnabled),
         privateNetwork |-> IF Deref(o.privEnabled) THEN Deref(o.privNetwork) ELSE "",
         zone |-> ZoneAPIValue(Deref(o.zone)),
         maintenanceDay |-> IF anyDay THEN 0 ELSE MaintenanceDayAPIValue(Deref(o.maintDay)),
         maintenanceHour |-> IF anyDay THEN 0 ELSE MaintenanceHourAPIValue(Deref(o.maintHour)),
         storageAutoResize |-> ~fixedSize,
         storageAutoResizeLimit |-> IF fixedSize THEN 0 ELSE Deref(o.sizeMax),
         tier |-> Deref(o.instanceType),
         userLabels |-> Deref(o.labels) ]

\* The fields that setForceSendFields names.
ForceSendFields ==
    {"Enabled", "Ipv4Enabled", "PrivateNetwork", "Hour", "StorageAutoResizeLimit"}

setForceSendFields(inst) == [inst EXCEPT !.forceSendFields = ForceSendFields]

\* The fields of a DatabaseInstance other than the force-send markers.
InstanceFields ==
    {"name", "region", "databaseVersion", "state", "activationPolicy", "settings"}

buildDatabaseInstance(o) ==
    setForceSendFields(
        [ databaseVersion |-> VersionAPIValue(Deref(o.version)),
          name |-> o.name,
          region |-> Deref(o.region),
          state |-> "",
          activationPolicy |-> "",
          settings |-> buildDatabaseInstanceSettings(o),
          forceSendFields |-> {} ])

\* A plausible slip: the machine tier is not compared.
ComparedFieldsNoTier(o) ==
    (SettingsFields \ {"dataDiskType", "zone", "tier"})
        \cup (IF Deref(o.zone) # ValueAny THEN {"zone"} ELSE {})

\* The settings that updateDatabaseInstanceSettings compares: the zone only
\* when the resource asks for one, the disk type never.
ComparedFields(o) ==
    (SettingsFields \ {"dataDiskType", "zone"})
        \cup (IF Deref(o.zone) # ValueAny THEN {"zone"} ELSE {})

\* A plausible slip: an update is reported whether or not a field differs.
updateDatabaseInstanceSettingsAlwaysUpdate(o, inst) ==
    LET desired == buildDatabaseInstanceSettings(o)
        differing == {f \in ComparedFields(o) : inst.settings[f] # desired[f]}
    IN [ instance |->
             setForceSendFields(
                 [inst EXCEPT !.settings =
                     [f \in SettingsFields |->
                        IF f \in differing THEN desired[f] ELSE inst.settings[f]]]),
         mustUpdate |-> TRUE ]

\* A plausible slip: the differences are found but the instance submitted
\* keeps the observed settings.
updateDatabaseInstanceSettingsNoWrite(o, inst) ==
    LET desired == buildDatabaseInstanceSettings(o)
    IN [ instance |-> setForceSendFields(inst),
         mustUpdate |-> \E f \in ComparedFields(o) : inst.settings[f] # desired[f] ]

\* Each compared field that differs takes the desired value.
updateDatabaseInstanceSettings(o, inst) ==
    LET desired == buildDatabaseInstanceSettings(o)
        differing == {f \in ComparedFields(o) : inst.settings[f] # desired[f]}
    IN [ instance |->
             setForceSendFields(
                 [inst EXCEPT !.settings =
                     [f \in SettingsFields |->
                        IF f \in differing THEN desired[f] ELSE inst.settings[f]]]),
         mustUpdate |-> differing # {} ]

\* How a call to the remote API ends.
CallOutcomes == {"ok", "conflict", "badrequest", "error"}

\* A plausible slip: every failure of the update is returned as an error.
maybeUpdateInstancePropagatesAll(o, inst, conds, outcome, now) ==
    LET u == updateDatabaseInstanceSettings(o, inst)
    IN IF ~u.mustUpdate
       THEN [ conds |-> setPostgresqlInstanceCondition(conds, ConditionTypeUpToDate,
                            ConditionTrue, Reason.InstanceUpToDate, "up-to-date", now),
              call |-> "none", submitted |-> NilPtr, failed |-> FALSE ]
       ELSE [ conds |->
                  CASE outcome = "conflict" ->
                         setPostgresqlInstanceCondition(conds, ConditionTypeUpToDate,
                             ConditionFalse, Reason.Conflict, "conflict", now)
                    [] outcome = "badrequest" ->
                         setPostgresqlInstanceCondition(conds, ConditionTypeUpToDate,
                             ConditionFalse, Reason.InvalidSpec, "invalid", now)
                    [] outcome = "error" ->
                         setPostgresqlInstanceCondition(conds, ConditionTypeUpToDate,
                             ConditionFalse, Reason.UnexpectedError, "error", now)
                    [] OTHER ->
                         setPostgresqlInstanceCondition(conds, ConditionTypeUpToDate,
                             ConditionTrue, Reason.InstanceUpdated, "updated", now),
              call |-> outcome,
              submitted |-> Ptr(u.instance),
              failed |-> outcome # "ok" ]

\* A plausible slip: once a conflict is recorded, the settings are not
\* compared again.
maybeUpdateInstanceGivesUpOnConflict(o, inst, conds, outcome, now) ==
    IF ConditionIs(conds, ConditionTypeUpToDate, ConditionFalse, Reason.Conflict)
    THEN [ conds |-> conds, call |-> "none", submitted |-> NilPtr, failed |-> FALSE ]
    ELSE
        LET u == updateDatabaseInstanceSettings(o, inst)
        IN IF ~u.mustUpdate
           THEN [ conds |-> setPostgresqlInstanceCondition(conds, ConditionTypeUpToDate,
                                ConditionTrue, Reason.InstanceUpToDate, "up-to-date", now),
                  call |-> "none", submitted |-> NilPtr, failed |-> FALSE ]
           ELSE [ conds |->
                      CASE outcome = "conflict" ->
                             setPostgresqlInstanceCondition(conds, ConditionTypeUpToDate,
                                 ConditionFalse, Reason.Conflict, "conflict", now)
                        [] outcome = "badrequest" ->
                             setPostgresqlInstanceCondition(conds, ConditionTypeUpToDate,
                                 ConditionFalse, Reason.InvalidSpec, "invalid", now)
                        [] outcome = "error" ->
                             setPostgresqlInstanceCondition(conds, ConditionTypeUpToDate,
                                 ConditionFalse, Reason.UnexpectedError, "error", now)
                        [] OTHER ->
                             setPostgresqlInstanceCondition(conds, ConditionTypeUpToDate,
                                 ConditionTrue, Reason.InstanceUpdated, "updated", now),
                  call |-> outcome,
                  submitted |-> Ptr(u.instance),
                  failed |-> outcome = "error" ]

\* maybeUpdateInstance, outcome being how Instances.Update ends if called.
\* call is "none" when no update is issued, else the outcome of the call.
maybeUpdateInstance(o, inst, conds, outcome, now) ==
    LET u == updateDatabaseInstanceSettings(o, inst)
    IN IF ~u.mustUpdate
       THEN [ conds |-> setPostgresqlInstanceCondition(conds, ConditionTypeUpToDate,
                            ConditionTrue, Reason.InstanceUpToDate, "up-to-date", now),
              call |-> "none", submitted |-> NilPtr, failed |-> FALSE ]
       ELSE [ conds |->
                  CASE outcome = "conflict" ->
                         setPostgresqlInstanceCondition(conds, ConditionTypeUpToDate,
                             ConditionFalse, Reason.Conflict, "conflict", now)
                    [] outcome = "badrequest" ->
                         setPostgresqlInstanceCondition(conds, ConditionTypeUpToDate,
                             ConditionFalse, Reason.InvalidSpec, "invalid", now)
                    [] outcome = "error" ->
                         setPostgresqlInstanceCondition(conds, ConditionTypeUpToDate,
                             ConditionFalse, Reason.UnexpectedError, "error", now)
                    [] OTHER ->
                         setPostgresqlInstanceCondition(conds, ConditionTypeUpToDate,
                             ConditionTrue, Reason.InstanceUpdated, "updated", now),
              call |-> outcome,
              submitted |-> Ptr(u.instance),
              failed |-> outcome = "error" ]

\* What the remote API keeps of an instance submitted to it, and returns.
\* An activation policy left out is ALWAYS.  An empty list of flags is left
\* out of the request and of the answer (a nil slice once decoded); the list
\* of authorized networks is always present.
RemoteStored(inst) ==
    [inst EXCEPT !.state = "RUNNABLE",
                 !.activationPolicy = "ALWAYS",
                 !.forceSendFields = {},
                 !.settings.databaseFlags =
                     IF @ = NilPtr \/ @ = Ptr(<<>>) THEN NilPtr ELSE @,
                 !.settings.authorizedNetworks =
                     IF @ = NilPtr THEN Ptr(<<>>) ELSE @]

-----------------------------------------------------------------------------
(* The reconciliation of one resource: processQueueItem and what it calls *)

\* A resource: the object admitted, whether it carries the cleanup
\* finalizer, whether it has a deletion timestamp, and status.conditions.
\* A resource as stored: the object admitted, what its metadata holds (the
\* cleanup finalizer, finalizers of others, a deletion timestamp) and its
\* status (the conditions, the addresses and the connection name, a
\* sequence of project, region and name that is empty when not set).
\* Resource versions are opaque and only compared for equality, so the
\* version is kept relative to the worker: "read" is the version that the
\* pass read, "patched" the one that the store returned to the worker for
\* its patch of the finalizer, "newer" one that the worker has not seen.
NewResource(o) ==
    [obj |-> o, finalizer |-> FALSE, others |-> FALSE, deleting |-> FALSE,
     conds |-> <<>>,
     ips |-> [privateIP |-> "", publicIP |-> ""], connectionName |-> <<>>,
     resourceVersion |-> "read"]

\* Whether the resource keeps finalizers of others once the store has applied
\* the patch that adds the cleanup finalizer.  The patch is a merge patch,
\* which replaces a list as a whole, and it holds a list of finalizers made
\* from the working copy: the whole list of the working copy, or only what
\* was added to it, by how the patch library renders the difference.  What
\* the stored resource held is lost either way.
FinalizersOfOthersKept(new) == {FALSE, new.others}

\* The fields that a patch made by patchPostgresqlInstance holds: those in
\* which the new object differs from the old one.
PatchedFields(old, new) == {f \in DOMAIN new : new[f] # old[f]}

\* A plausible slip: the store rejects every patch made from an object
\* older than the stored one.
PatchOutcomesVersionChecked(old, new, stored) ==
    IF stored = NilPtr THEN {"notfound"}
    ELSE IF Deref(stored).resourceVersion # old.resourceVersion THEN {"conflict"}
    ELSE {"ok", "error"}

\* How the store may answer the patch: it rejects a patch that holds a
\* resource version other than the stored one, and compares no version for
\* a patch that holds none.
PatchOutcomes(old, new, stored) ==
    IF stored = NilPtr THEN {"notfound"}
    ELSE IF /\ "resourceVersion" \in PatchedFields(old, new)
            /\ Deref(stored).resourceVersion # new.resourceVersion
    THEN {"conflict"}
    ELSE {"ok", "error"}

\* The types of the addresses of a remote instance.
DatabaseInstanceIPAddressType == [Private |-> "PRIVATE", Public |-> "PRIMARY"]

\* What the remote API reports of an instance besides its settings: a
\* public address when IPv4 is enabled, a private address when a private
\* network is set, and the connection name.
RemoteReport(inst) ==
    [ ipAddresses |->
          (IF inst.settings.ipv4Enabled
           THEN <<[type |-> DatabaseInstanceIPAddressType.Public,
                   ipAddress |-> "203.0.113.7"]>>
           ELSE <<>>) \o
          (IF inst.settings.privateNetwork # ""
           THEN <<[type |-> DatabaseInstanceIPAddressType.Private,
                   ipAddress |-> "10.0.0.7"]>>
           ELSE <<>>),
      connectionName |-> <<"project", inst.region, inst.name>> ]

\* The resource with the connection name and the addresses reported for
\* the instance.  No step of processQueueItem calls it.
setPostgresqlInstanceConnectionNameAndIPs(postgresqlInstance, databaseInstance) ==
    LET RECURSIVE Set(_, _)
        Set(ips, l) ==
            IF l = <<>> THEN ips
            ELSE Set(IF Head(l).type = DatabaseInstanceIPAddressType.Private
                     THEN [ips EXCEPT !.privateIP = Head(l).ipAddress]
                     ELSE IF Head(l).type = DatabaseInstanceIPAddressType.Public
                     THEN [ips EXCEPT !.publicIP = Head(l).ipAddress]
                     ELSE ips,
                     Tail(l))
    IN [postgresqlInstance EXCEPT
          !.ips = Set([privateIP |-> "", publicIP |-> ""],
                      databaseInstance.ipAddresses),
          !.connectionName = databaseInstance.connectionName]

\* The remote calls, and all the calls the worker makes.
RemoteCalls ==
    { "Instances.Get", "Instances.Insert", "Instances.Update", "Instances.Delete",
      "Operations.List", "Users.Update" }
StoreCalls ==
    { "Patch.addFinalizer", "Patch.removeFinalizer", "Patch.status",
      "Secrets.Get", "Secrets.Create", "Secrets.Update" }

\* The remote calls made in the pass.
RemoteCallsIn(log) == {c \in log : c[1] \in RemoteCalls}

\* A plausible slip: the finalizer is thought present on every resource.
NeedsFinalizerNever(r) == FALSE

\* The finalizer must be added to a resource that is not being deleted and
\* does not carry it.
NeedsFinalizer(r) == ~r.deleting /\ ~r.finalizer

\* A plausible slip: a resource being deleted that no longer carries the
\* finalizer is reconciled like any other.
TerminatingWithFinalizer(r) == r.deleting /\ r.finalizer

\* Whether the resource is being deleted: its deletion timestamp is set.
Terminating(r) == r.deleting

\* A plausible slip: the pause of the resource is not looked at.
AfterFinalizerIgnorePause(r) == "get"

\* Where the worker goes once the finalizer is in place: nowhere when the
\* resource is paused, else to the lookup of the instance.
AfterFinalizer(r) == IF r.obj.paused THEN "idle" ELSE "get"

\* A plausible slip: the failures of the creation are not told apart.
createInstanceConditionsUnclassified(conds, outcome, now) ==
    IF outcome = "ok"
    THEN setPostgresqlInstanceCondition(conds, ConditionTypeCreated,
             ConditionTrue, Reason.InstanceCreated, "created", now)
    ELSE setPostgresqlInstanceCondition(conds, ConditionTypeCreated,
             ConditionFalse, Reason.UnexpectedError, "error", now)

\* A plausible slip: the condition is left alone when the creation succeeds.
createInstanceConditionsKeepOnSuccess(conds, outcome, now) ==
    CASE outcome = "conflict" ->
           setPostgresqlInstanceCondition(conds, ConditionTypeCreated,
               ConditionFalse, Reason.NameUnavailable, "unavailable", now)
      [] outcome = "badrequest" ->
           setPostgresqlInstanceCondition(conds, ConditionTypeCreated,
               ConditionFalse, Reason.InvalidSpec, "invalid", now)
      [] outcome = "error" ->
           setPostgresqlInstanceCondition(conds, ConditionTypeCreated,
               ConditionFalse, Reason.UnexpectedError, "error", now)
      [] OTHER -> conds

\* The conditions createInstance sets, by how Instances.Insert ends.
createInstanceConditions(conds, outcome, now) ==
    CASE outcome = "conflict" ->
           setPostgresqlInstanceCondition(conds, ConditionTypeCreated,
               ConditionFalse, Reason.NameUnavailable, "unavailable", now)
      [] outcome = "badrequest" ->
           setPostgresqlInstanceCondition(conds, ConditionTypeCreated,
               ConditionFalse, Reason.InvalidSpec, "invalid", now)
      [] outcome = "error" ->
           setPostgresqlInstanceCondition(conds, ConditionTypeCreated,
               ConditionFalse, Reason.UnexpectedError, "error", now)
      [] OTHER ->
           setPostgresqlInstanceCondition(conds, ConditionTypeCreated,
               ConditionTrue, Reason.InstanceCreated, "created", now)

\* A plausible slip: the errors of an operation that is done are not looked
\* at.
isOperationInProgressOrFailedStatusOnly(op) ==
    [ inProgressOrFailed |-> op \notin {"none", "DONE", "FAILED"},
      errorMessage |-> "" ]

\* isOperationInProgressOrFailed on the status of the last operation ("none":
\* no operation; "FAILED": done with errors).
isOperationInProgressOrFailed(op) ==
    [ inProgressOrFailed |-> op \notin {"none", "DONE"},
      errorMessage |-> IF op = "FAILED" THEN "failed" ELSE "" ]

\* A plausible slip: a password is set whenever the pass gets that far.
NeedsPasswordAlways(pw) == TRUE

\* The password must be set when the secret holds none, or an empty one.
NeedsPassword(pw) == pw = 0

\* A plausible slip: the finalizer goes whether or not the instance is gone.
DeleteFailedNever(outcome) == FALSE

\* deleteInstance returns an error when its call ends with one.
DeleteFailed(outcome) == outcome = "error"

-----------------------------------------------------------------------------
(* The mutation of the pods that ask for access to an instance: mutatePod *)

\* A pod is a record of its annotations (a function from keys to values),
\* the names of its volumes and its containers; a container is a record of
\* its name, its command (the arguments the proxy is started with), the
\* ports it declares, the volumes it mounts and its environment variables.

\* The annotation that names the PostgresqlInstance a pod asks access to,
\* and the one that marks a pod as injected.
PostgresqlInstanceNameAnnotationKey == "postgresqlinstance-name"
ProxyInjectedAnnotationKey == "proxy-injected"

\* The names and values that mutatePod injects.
PodConstants ==
    [ clientServiceAccountKeyKey |-> "credentials.json",
      cloudSQLProxyContainerName |-> "cloud-sql-proxy",
      credentialsSecretVolumeName |-> "credentials",
      ipAddressTypePublic |-> "PUBLIC",
      ipAddressTypePrivate |-> "PRIVATE",
      pghostEnvVarName |-> "PGHOST",
      pghostEnvVarValue |-> "localhost",
      pgportEnvVarName |-> "PGPORT",
      pguserEnvVarName |-> "PGUSER",
      pgpassfileEnvVarName |-> "PGPASSFILE",
      pgpassfileEnvVarValue |-> "/secret/pgpass.conf" ]

\* The range the port of the proxy is drawn from, cut down to PortCount
\* ports.
cloudSQLProxyContainerPortMinValue == 49152
cloudSQLProxyContainerPorts ==
    cloudSQLProxyContainerPortMinValue ..
        (cloudSQLProxyContainerPortMinValue + PortCount - 1)

\* How mutatePod ends.
PodErr ==
    [ None |-> "",
      InstanceNotFound |-> "postgresqlinstance does not exist",
      SecretNotFound |->
          "the secret associated with postgresqlinstance does not exist",
      ConnectionName |->
          "failed to get the connection name associated with postgresqlinstance",
      CreateSecret |->
          "failed to create the local secret associated with postgresqlinstance",
      PatchSecret |->
          "failed to patch the local secret associated with postgresqlinstance" ]

\* strings.Replace(s, old, new, -1) for a one-character old: s and new are
\* sequences of characters.
Replace(s, old, new) ==
    LET RECURSIVE R(_)
        R(t) == IF t = <<>> THEN <<>>
                ELSE (IF Head(t) = old THEN new ELSE <<Head(t)>>) \o R(Tail(t))
    IN R(s)

\* The string data of the namespace-local secret: the key of the service
\* account of the proxy and the line of pgpass.conf, in which the
\* backslashes and then the colons of the password are escaped.
buildLocalPostgresqlInstanceSecret(postgresqlInstanceSecret) ==
    LET u == postgresqlInstanceSecret.username
        p == Replace(Replace(postgresqlInstanceSecret.password,
                             "\\", <<"\\", "\\">>), ":", <<"\\", ":">>)
    IN [ credentials |-> PodConstants.clientServiceAccountKeyKey,
         pgpass |-> <<"*", ":", "*", ":", "*", ":", u, ":">> \o p ]

\* patchSecret on the secret read from the store (it holds data, and no
\* string data) and its copy with the desired string data: whether a patch
\* is sent, and the data of the secret once the patch is applied.
patchSecret(oldObj, newObj) ==
    [ sent |-> oldObj # newObj,
      data |-> IF newObj.stringData = <<>> THEN newObj.data
               ELSE Deref(newObj.stringData) ]

\* A port drawn from the range whatever the pod declares.
getRandomPort(pod) == cloudSQLProxyContainerPorts

\* The ports that getFreeRandomPort may return for a pod: those of the
\* range that no container of the pod declares.
getFreeRandomPort(pod) ==
    { port \in cloudSQLProxyContainerPorts :
        \A i \in 1..Len(pod.containers) : port \notin pod.containers[i].ports }

\* The container of the proxy.
buildCloudSQLProxyContainer(postgresqlInstance, port) ==
    LET ipAddressTypes ==
            (IF postgresqlInstance.publicIP
             THEN <<PodConstants.ipAddressTypePublic>> ELSE <<>>) \o
            (IF postgresqlInstance.privateIP
             THEN <<PodConstants.ipAddressTypePrivate>> ELSE <<>>)
    IN [ name |-> PodConstants.cloudSQLProxyContainerName,
         command |-> <<postgresqlInstance.connectionName, port, ipAddressTypes>>,
         ports |-> {port},
         volumeMounts |-> <<PodConstants.credentialsSecretVolumeName>>,
         env |-> <<>> ]

ConnectionNameNotChecked(postgresqlInstance) == TRUE

\* Whether the connection name of the instance has been reported in its
\* status.
ConnectionNameReportedIn(postgresqlInstance) ==
    postgresqlInstance.connectionName # ""

\* An outcome of mutatePod: the pod returned (nil on error), the error, the
\* namespace-local secret as stored afterwards and the writes sent for it.
PodOutcome(pod, err, local, calls) ==
    [pod |-> pod, err |-> err, local |-> local, calls |-> calls]

\* The outcomes of mutatePod for a pod and what the store holds; fault names
\* the write of the namespace-local secret that fails, if any.  There is one
\* outcome for every port that may be drawn.
mutatePod(currentObj, store, fault) ==
    LET a == currentObj.annotations
        Stop(err) == {PodOutcome(NilPtr, err, store.local, <<>>)}
    IN IF PostgresqlInstanceNameAnnotationKey \notin DOMAIN a
          \/ a[PostgresqlInstanceNameAnnotationKey] = ""
       THEN {PodOutcome(Ptr(currentObj), PodErr.None, store.local, <<>>)}
       ELSE IF IsNil(store.instance) THEN Stop(PodErr.InstanceNotFound)
       ELSE IF IsNil(store.secret) THEN Stop(PodErr.SecretNotFound)
       ELSE IF ~ConnectionNameReportedIn(Deref(store.instance))
            THEN Stop(PodErr.ConnectionName)
       ELSE
         LET postgresqlInstance == Deref(store.instance)
             postgresqlInstanceSecret == Deref(store.secret)
             desired == buildLocalPostgresqlInstanceSecret(postgresqlInstanceSecret)
             current == [data |-> Deref(store.local), stringData |-> NilPtr]
             patch == patchSecret(current,
                                  [current EXCEPT !.stringData = Ptr(desired)])
             calls == IF IsNil(store.local) THEN <<"Secrets.Create">>
                      ELSE IF patch.sent
                           THEN <<"Secrets.Create", "Secrets.Patch">>
                           ELSE <<"Secrets.Create">>
             local == IF IsNil(store.local) THEN Ptr(desired)
                      ELSE IF patch.sent THEN Ptr(patch.data) ELSE store.local
             Inject(c, port) ==
                 [c EXCEPT
                    !.volumeMounts =
                        Append(@, PodConstants.credentialsSecretVolumeName),
                    !.env = @ \o
                        << <<PodConstants.pghostEnvVarName,
                             PodConstants.pghostEnvVarValue>>,
                           <<PodConstants.pgportEnvVarName, port>>,
                           <<PodConstants.pguserEnvVarName,
                             postgresqlInstanceSecret.username>>,
                           <<PodConstants.pgpassfileEnvVarName,
                             PodConstants.pgpassfileEnvVarValue>> >>]
             Mutated(port) ==
                 [ annotations |->
                       (ProxyInjectedAnnotationKey :> "true") @@ a,
                   volumes |-> Append(currentObj.volumes,
                                      PodConstants.credentialsSecretVolumeName),
                   containers |->
                       Append([i \in 1..Len(currentObj.containers) |->
                                  Inject(currentObj.containers[i], port)],
                              buildCloudSQLProxyContainer(postgresqlInstance,
                                                          port)) ]
         IN IF fault = "Secrets.Create"
            THEN {PodOutcome(NilPtr, PodErr.CreateSecret, store.local,
                             <<"Secrets.Create">>)}
            ELSE IF fault = "Secrets.Patch" /\ ~IsNil(store.local) /\ patch.sent
            THEN {PodOutcome(NilPtr, PodErr.PatchSecret, store.local, calls)}
            ELSE {PodOutcome(Ptr(Mutated(port)), PodErr.None, local, calls) :
                    port \in getFreeRandomPort(currentObj)}

-----------------------------------------------------------------------------
(* The values the variables of a specification keep while another one runs *)

NoRequest == [op |-> "NONE", obj |-> NilPtr, lookup |-> "notfound"]
NoResponse == [op |-> "NONE", allowed |-> FALSE, err |-> Err.None, patch |-> {}]

AdmIdle == /\ aStored = NilPtr /\ aReq = NoRequest /\ aResp = NoResponse

\* The remote instance right after its creation from the resource o.
CreatedInstance(o) == RemoteStored(buildDatabaseInstance(o))

DriftStart(o) ==
    /\ dSpec = o
    /\ dRemote = CreatedInstance(o)
    /\ dConds = <<>>
    /\ dDrifted = {}
    /\ dSubmitted = NilPtr
    /\ dCall = "idle"
    /\ dQuiet = 0
    /\ dPrev = "idle"

DriftIdle == DriftStart(AdmittedBase)

\* An error is the set of the failed calls that it reports; nil reports
\* none.
NoError == {}

\* The error that a call returns, if it failed.
ErrorOf(call, failed) == IF failed THEN {call} ELSE NoError

\* A plausible slip: the error of the body is dropped for that of the patch.
NewAggregateFirstOnly(errlist) == errlist[1]

\* utilerrors.NewAggregate: one error that holds the errors of the list
\* that are not nil; nil if there is none.
NewAggregate(errlist) == UNION {errlist[k] : k \in DOMAIN errlist}

\* The worker is idle and has made no call.
WorkerIdle ==
    /\ rPc = "idle"
    /\ rI = NilPtr
    /\ rP = NilPtr
    /\ rInst = NilPtr
    /\ rPw = 0
    /\ rErr = NoError
    /\ rLog = {}
    /\ rCreates = 0
    /\ rPwSets = 0
    /\ rFails = 0
    /\ rCleared = FALSE

\* A resource has been admitted; nothing exists for it yet.
ReconStart(o) ==
    /\ rStore = Ptr(NewResource(o))
    /\ rRemote = NilPtr
    /\ rSecret = NilPtr
    /\ rRemotePw = 0
    /\ WorkerIdle

ReconIdle == ReconStart(AdmittedBase)

NoPodResponse == [pod |-> NilPtr, err |-> PodErr.None, calls |-> <<>>]

\* Nothing is stored, and no pod has been created.
PodIdle ==
    /\ pStore = [instance |-> NilPtr, secret |-> NilPtr, local |-> NilPtr]
    /\ pReq = NilPtr
    /\ pResp = NoPodResponse
    /\ pLog = <<>>

\* What the endpoint did with a request: the status code of the response
\* it wrote and the AdmissionReview in its body (nil: none), or that the
\* handler panicked, in which case no response is written.
HTTPResult(status, review, panicked) ==
    [status |-> status, review |-> review, panicked |-> panicked]

\* No request has reached the endpoint.
HTTPIdle ==
    /\ hReq = NilPtr
    /\ hRes = HTTPResult(0, NilPtr, FALSE)

Replicas == 1..ReplicaCount

\* A replica that has not started: where it is in Register, how many times
\* it has started, the certificate it generated, the one it serves (nil:
\* none), the configuration it read (nil: none) and whether it has written
\* the configuration since it started.
NotStarted ==
    [pc |-> "idle", starts |-> 0, gen |-> NilPtr, tlsCertificate |-> NilPtr,
     currentCfg |-> NilPtr, wrote |-> "none"]

\* Nothing is stored and no replica has started.
BootIdle ==
    /\ tlsSecret = NilPtr
    /\ whCfg = NilPtr
    /\ boot = [r \in Replicas |-> NotStarted]
    /\ tlsWrites = 0
    /\ whWrites = 0

\* The resources of SpecNames, by name.
ResourceNames == {"one", "two"}

\* No resource is stored, no instance exists and no request was handled.
NamesIdle ==
    /\ nStored = [k \in ResourceNames |-> NilPtr]
    /\ nRemote = {}
    /\ nResp = NilPtr

-----------------------------------------------------------------------------
(* SpecCond: any sequence of condition updates on one resource *)

\* The reasons and messages the calls of SpecCond choose from.
CondReasonMessages ==
    { <<Reason.InstanceReady, "m1">>, <<Reason.InstanceReady, "m2">>,
      <<Reason.InstanceNotReady, "m1">> }

CondIdle ==
    /\ cConds = <<>>
    /\ cNow = 0
    /\ cLast = "none"

InitCond ==
    CondIdle /\ AdmIdle /\ DriftIdle /\ ReconIdle /\ PodIdle /\ HTTPIdle /\ BootIdle
    /\ NamesIdle

\* One call of setPostgresqlInstanceCondition at time cNow.
CondSet ==
    \E t \in ConditionTypes, s \in ConditionStatuses, rm \in CondReasonMessages :
        /\ cConds' = setPostgresqlInstanceCondition(cConds, t, s, rm[1], rm[2], cNow)
        /\ cLast' = IF /\ HasCondition(cConds, t)
                        /\ GetCondition(cConds, t).status = s
                        /\ GetCondition(cConds, t).lastTransitionTime < cNow
                        /\ \/ GetCondition(cConds, t).reason # rm[1]
                           \/ GetCondition(cConds, t).message # rm[2]
                     THEN "sameStatusLater"
                     ELSE "other"
        /\ UNCHANGED <<cNow, notCond>>

\* Time passes between two calls.
CondTick ==
    /\ cNow < MaxClock
    /\ cNow' = cNow + 1
    /\ UNCHANGED <<cConds, cLast, notCond>>

NextCond == CondSet \/ CondTick

SpecCond == InitCond /\ [][NextCond]_vars

-----------------------------------------------------------------------------
(* C10: after any sequence of condition updates, status.conditions holds at
   most one entry per condition type, and an entry's lastTransitionTime
   changes only in an update that changes that condition's status. *)
C10_OneEntryPerType ==
    \A t \in ConditionTypes : CountConditions(cConds, t) <= 1

C10_TransitionTimeStep ==
    \A t \in ConditionTypes :
        (/\ HasCondition(cConds, t)
         /\ HasCondition(cConds', t)
         /\ GetCondition(cConds', t).lastTransitionTime
                # GetCondition(cConds, t).lastTransitionTime)
        => GetCondition(cConds', t).status # GetCondition(cConds, t).status

\* C10: at most one condition per type at all times, and a transition time
\* that changes between two states only together with the status.
C10_Conditions == [](C10_OneEntryPerType) /\ [][C10_TransitionTimeStep]_vars

\* The last call changed the reason or the message of a condition, not its
\* status, later than the condition's last transition, and all three
\* condition types are present.
C10_Witness ==
    /\ cLast = "sameStatusLater"
    /\ Len(cConds) = 3

-----------------------------------------------------------------------------
(* SpecAdmission: CREATE, UPDATE and DELETE requests for one resource reach
   the webhook one at a time; an allowed request takes effect on the stored
   resource, with the mutations of the pipeline applied. *)

\* The changes a client makes to the base object (CREATE) or to the stored
\* object (UPDATE) before sending it: <<field, value>>.
Edits ==
    { <<"anno", NilPtr>>, <<"anno", Ptr("")>>, <<"anno", Ptr(False)>>,
      <<"anno", Ptr(True)>>, <<"anno", Ptr("yes")>>,
      <<"availType", Ptr("Regional")>>, <<"availType", Ptr("foo")>>,
      <<"region", NilPtr>>, <<"region", Ptr("europe-west4")>>,
      <<"name", "db-b">>, <<"name", "">>, <<"name", "db-long">>,
      <<"privEnabled", Ptr(TRUE)>>, <<"privEnabled", Ptr(FALSE)>>,
      <<"privNetwork", Ptr("net")>>, <<"privNetwork", Ptr("")>>,
      <<"pubEnabled", Ptr(FALSE)>>, <<"pubEnabled", NilPtr>>,
      <<"sizeMin", NilPtr>>, <<"sizeMin", Ptr(5)>>, <<"sizeMin", Ptr(20)>>,
      <<"diskType", NilPtr>>, <<"diskType", Ptr("HDD")>>,
      <<"version", NilPtr>>, <<"version", Ptr("10")>> }

\* A resource admitted before the annotation was injected on every request
\* holds no allow-deletion annotation, or an empty one.
LegacyObjects ==
    { [AdmittedBase EXCEPT !.anno = a] : a \in {NilPtr, Ptr("")} }

InitAdmission ==
    /\ aStored \in {NilPtr} \cup { Ptr(o) : o \in LegacyObjects }
    /\ aReq = NoRequest
    /\ aResp = NoResponse
    /\ CondIdle
    /\ DriftIdle
    /\ ReconIdle
    /\ PodIdle
    /\ HTTPIdle
    /\ BootIdle
    /\ NamesIdle

\* A CREATE request arrives: the base object with one or two changes.
SubmitCreate ==
    /\ aReq.op = "NONE"
    /\ IsNil(aStored)
    /\ \E e1 \in Edits, e2 \in Edits, l \in {"found", "notfound", "error"} :
           aReq' = [op |-> "CREATE",
                    obj |-> Ptr(ApplyEdit(ApplyEdit(BaseObject, e1), e2)),
                    lookup |-> l]
    /\ aResp' = NoResponse
    /\ UNCHANGED <<aStored, notAdm>>

\* An UPDATE request arrives: the stored object as it is, or with one or two
\* changes.  The remote instance may exist by now, or its lookup fail.
SubmitUpdate ==
    /\ aReq.op = "NONE"
    /\ ~IsNil(aStored)
    /\ \E o \in {Deref(aStored)} \cup
                { ApplyEdit(ApplyEdit(Deref(aStored), e1), e2) :
                    e1 \in Edits, e2 \in Edits },
          l \in {"found", "error"} :
           aReq' = [op |-> "UPDATE", obj |-> Ptr(o), lookup |-> l]
    /\ aResp' = NoResponse
    /\ UNCHANGED <<aStored, notAdm>>

SubmitDelete ==
    /\ aReq.op = "NONE"
    /\ ~IsNil(aStored)
    /\ aReq' = [op |-> "DELETE", obj |-> NilPtr, lookup |-> "notfound"]
    /\ aResp' = NoResponse
    /\ UNCHANGED <<aStored, notAdm>>

\* The webhook handles the request: on error the response denies it with
\* the message of the error, otherwise it allows it (with the patch that
\* turns the object sent into the mutated one).
Handle ==
    /\ aReq.op # "NONE"
    /\ LET prev == IF aReq.op = "CREATE" THEN NilPtr ELSE aStored
           r == validateAndMutatePostgresqlInstance(aReq.obj, prev, aReq.lookup)
       IN /\ aResp' = [op |-> aReq.op, allowed |-> r.err = Err.None, err |-> r.err,
                       patch |-> IF r.err = Err.None /\ ~IsNil(aReq.obj)
                                 THEN CreateRFC6902Patch(Deref(aReq.obj), Deref(r.obj))
                                 ELSE {}]
          /\ aStored' = IF r.err # Err.None THEN aStored ELSE r.obj
    /\ aReq' = NoRequest
    /\ UNCHANGED notAdm

NextAdmission == SubmitCreate \/ SubmitUpdate \/ SubmitDelete \/ Handle

SpecAdmission == InitAdmission /\ [][NextAdmission]_vars

\* A step in which the webhook answers a request.
Handled(op) == aReq.op = op /\ aResp'.op = op

(* C1: a DELETE request is allowed if and only if the stored object carries
   the allow-deletion annotation with the exact value "true"; in every other
   case (absent, empty, "false", anything else) it is denied with the error
   that names the annotation. *)
C1_DeleteGuard ==
    [][Handled("DELETE") =>
          /\ aResp'.allowed <=> Deref(aStored).anno = Ptr(True)
          /\ ~aResp'.allowed => aResp'.err = Err.Delete]_vars

\* A DELETE was denied for a stored annotation that is neither "true" nor
\* "false".
C1_Witness ==
    /\ aResp.op = "DELETE"
    /\ ~aResp.allowed
    /\ aResp.err = Err.Delete
    /\ ~IsNil(aStored)
    /\ Deref(aStored).anno = Ptr("yes")

\* The value a field of the object sent takes once defaults are applied.
Effective(obj, f) ==
    IF ~IsNil(obj[f]) THEN Deref(obj[f])
    ELSE CASE f = "region" -> PostgresqlInstanceSpecDefault.LocationRegion
           [] f = "diskType" -> PostgresqlInstanceSpecDefault.ResourcesDiskType
           [] f = "sizeMin" -> PostgresqlInstanceSpecDefault.ResourcesDiskSizeMinimumGb

\* The UPDATE being answered changes the name / the region / the disk type,
\* or lowers the minimum disk size.
ChangesName == Deref(aReq.obj).name # Deref(aStored).name
ChangesRegion == Effective(Deref(aReq.obj), "region") # Deref(Deref(aStored).region)
ChangesDiskType == Effective(Deref(aReq.obj), "diskType") # Deref(Deref(aStored).diskType)
LowersSizeMin == Effective(Deref(aReq.obj), "sizeMin") < Deref(Deref(aStored).sizeMin)

\* The errors of the checks the pipeline makes before it reaches the step
\* that validates the location, the name and the resources.
ErrorsBeforeLocation == {Err.Availability, Err.BackupStartTime, Err.Flags}
ErrorsBeforeName ==
    ErrorsBeforeLocation \cup {Err.RegionChanged, Err.MaintenanceDay, Err.MaintenanceHour}
ErrorsBeforeResources ==
    ErrorsBeforeName \cup
        { Err.NameChanged, Err.NameEmpty, Err.NameRegex, Err.NameLength,
          Err.PrivateIPDisabled, Err.NetworkRemoved, Err.NoIPAccess, Err.NetworkEmpty }

\* The object sent differs from the stored one in the field f alone.
OnlyChanges(f) ==
    \A g \in ObjectFields \ {f} : Deref(aReq.obj)[g] = Deref(aStored)[g]

\* The stored object keeps its name, region and disk type, and its minimum
\* disk size does not decrease.
ImmutableFieldsKept ==
    (~IsNil(aStored) /\ ~IsNil(aStored')) =>
        /\ Deref(aStored').name = Deref(aStored).name
        /\ Deref(aStored').region = Deref(aStored).region
        /\ Deref(aStored').diskType = Deref(aStored).diskType
        /\ Deref(Deref(aStored').sizeMin) >= Deref(Deref(aStored).sizeMin)

(* C4 as stated: every UPDATE that changes the name, the region or the disk
   type, or lowers the minimum disk size, is denied with the error of that
   very field. *)
C4_AsStated ==
    [][Handled("UPDATE") =>
          /\ ChangesName => (~aResp'.allowed /\ aResp'.err = Err.NameChanged)
          /\ ChangesRegion => (~aResp'.allowed /\ aResp'.err = Err.RegionChanged)
          /\ ChangesDiskType => (~aResp'.allowed /\ aResp'.err = Err.DiskTypeChanged)
          /\ LowersSizeMin => (~aResp'.allowed /\ aResp'.err = Err.DiskSizeDecreased)]_vars

(* C4: every UPDATE that changes the name, the region or the disk type, or
   lowers the minimum disk size (a field left out counting as its default),
   is denied; the error is the one of that field unless a check the pipeline
   makes earlier has already failed, and it is the one of that field when
   nothing else differs from the stored object.  Hence the stored name,
   region and disk type never change and the stored minimum disk size never
   decreases. *)
C4_ImmutableFields ==
    [][/\ Handled("UPDATE") =>
            /\ ChangesRegion =>
                  /\ ~aResp'.allowed
                  /\ aResp'.err \in ErrorsBeforeLocation \cup {Err.RegionChanged}
                  /\ OnlyChanges("region") => aResp'.err = Err.RegionChanged
            /\ ChangesName =>
                  /\ ~aResp'.allowed
                  /\ aResp'.err \in ErrorsBeforeName \cup {Err.NameChanged}
                  /\ OnlyChanges("name") => aResp'.err = Err.NameChanged
            /\ LowersSizeMin =>
                  /\ ~aResp'.allowed
                  /\ aResp'.err \in ErrorsBeforeResources \cup {Err.DiskSizeDecreased}
                  /\ OnlyChanges("sizeMin") => aResp'.err = Err.DiskSizeDecreased
            /\ ChangesDiskType =>
                  /\ ~aResp'.allowed
                  /\ aResp'.err \in ErrorsBeforeResources
                                       \cup {Err.DiskSizeDecreased, Err.DiskTypeChanged}
                  /\ OnlyChanges("diskType") => aResp'.err = Err.DiskTypeChanged
       /\ ImmutableFieldsKept]_vars

\* An UPDATE that lowered the minimum disk size of a resource whose stored
\* minimum had been raised was denied with the error of that field.
C4_Witness ==
    /\ aResp.op = "UPDATE"
    /\ ~aResp.allowed
    /\ aResp.err = Err.DiskSizeDecreased
    /\ ~IsNil(aStored)
    /\ Deref(aStored).sizeMin = Ptr(20)
    /\ Deref(aStored).diskType = Ptr("HDD")

\* The stored object is one the pipeline has let through (it always leaves
\* a value in the annotation).
Admitted == ~IsNil(aStored) /\ Deref(aStored).anno \notin {NilPtr, Ptr("")}

\* The webhook answers a CREATE or an UPDATE and lets it through.
Admits == (Handled("CREATE") \/ Handled("UPDATE")) /\ aResp'.allowed

(* C11: when an object the pipeline has let through is sent again as it is
   stored (an UPDATE of the object against itself), the request is allowed,
   the patch is empty and the stored object stays the same. *)
C11_Idempotent ==
    [][(Handled("UPDATE") /\ Admitted /\ aReq.obj = aStored) =>
          /\ aResp'.allowed
          /\ aResp'.patch = {}
          /\ aStored' = aStored]_vars

\* An UPDATE was allowed with an empty patch for a stored object with
\* private IP access, a network and a larger disk.
C11_Witness ==
    /\ aResp.op = "UPDATE"
    /\ aResp.allowed
    /\ aResp.patch = {}
    /\ ~IsNil(aStored)
    /\ Deref(aStored).privEnabled = Ptr(TRUE)
    /\ Deref(aStored).privNetwork = Ptr("net")

\* Whether the object enables private / public IP access (a field left out
\* counts as false).
PrivateIPEnabled(obj) == ~IsNil(obj.privEnabled) /\ Deref(obj.privEnabled)
PublicIPEnabled(obj) == ~IsNil(obj.pubEnabled) /\ Deref(obj.pubEnabled)

(* C12: every object stored by an admitted CREATE or UPDATE has private or
   public IP access enabled, both fields being set; and a CREATE or UPDATE
   whose object has both disabled or left out is denied. *)
C12_IPAccess ==
    /\ [][Admits =>
             /\ ~IsNil(Deref(aStored').privEnabled)
             /\ ~IsNil(Deref(aStored').pubEnabled)
             /\ PrivateIPEnabled(Deref(aStored')) \/ PublicIPEnabled(Deref(aStored'))]_vars
    /\ [][((Handled("CREATE") \/ Handled("UPDATE"))
              /\ ~PrivateIPEnabled(Deref(aReq.obj))
              /\ ~PublicIPEnabled(Deref(aReq.obj))) => ~aResp'.allowed]_vars

\* A CREATE was denied because neither IP family was enabled.
C12_Witness ==
    /\ aResp.op = "CREATE"
    /\ ~aResp.allowed
    /\ aResp.err = Err.NoIPAccess

(* C13: from one stored object to the next, private IP access does not go
   from enabled to disabled and a network that is set does not become
   empty. *)
C13_PrivateIPKept ==
    [][(~IsNil(aStored) /\ ~IsNil(aStored')) =>
          /\ PrivateIPEnabled(Deref(aStored)) => PrivateIPEnabled(Deref(aStored'))
          /\ Deref(aStored).privNetwork \notin {NilPtr, Ptr("")} =>
                Deref(aStored').privNetwork \notin {NilPtr, Ptr("")}]_vars

\* An UPDATE that disabled private IP access was denied, public IP access
\* being enabled.
C13_Witness ==
    /\ aResp.op = "UPDATE"
    /\ ~aResp.allowed
    /\ aResp.err = Err.PrivateIPDisabled
    /\ ~IsNil(aStored)
    /\ PrivateIPEnabled(Deref(aStored))
    /\ PublicIPEnabled(Deref(aStored))

(* C14: after an admitted CREATE or UPDATE the stored object carries the
   allow-deletion annotation with a value that is not empty: "false" when
   the object sent has none or an empty one, else the value sent. *)
C14_AnnotationSet ==
    [][Admits =>
          /\ Deref(aStored').anno \notin {NilPtr, Ptr("")}
          /\ Deref(aStored').anno =
                IF Deref(aReq.obj).anno \in {NilPtr, Ptr("")}
                THEN Ptr(False) ELSE Deref(aReq.obj).anno]_vars

\* An UPDATE that emptied the annotation was admitted, and the stored
\* annotation is "false".
C14_Witness ==
    /\ aResp.op = "UPDATE"
    /\ aResp.allowed
    /\ "anno" \in aResp.patch
    /\ Deref(aStored).anno = Ptr(False)
    /\ Deref(aStored).name = "db-b"

(* C15 as stated: an UPDATE that differs from the stored object in the
   version alone, changed or left out, is denied with the error saying that
   the version cannot be changed. *)
C15_AsStated ==
    [][(Handled("UPDATE") /\ OnlyChanges("version")
           /\ ~IsNil(Deref(aStored).version)
           /\ Deref(aReq.obj).version # Deref(aStored).version) =>
          (~aResp'.allowed /\ aResp'.err = Err.VersionChanged)]_vars

\* The errors of the checks the pipeline makes before the name step looks up
\* the instance on CREATE.
ErrorsBeforeLookup ==
    (ErrorsBeforeName \ {Err.RegionChanged})
        \cup {Err.NameEmpty, Err.NameRegex, Err.NameLength}

(* C20: a CREATE is denied when the lookup of the name finds an instance,
   with the error saying the name is in use, and when the lookup fails
   otherwise, with the error saying the check failed (unless an earlier
   check has already failed); when the lookup answers not found neither
   error is returned.  An UPDATE never gets either error, whatever the
   remote API would answer. *)
C20_NameLookup ==
    [][/\ Handled("CREATE") =>
            /\ aReq.lookup = "found" =>
                  /\ ~aResp'.allowed
                  /\ aResp'.err \in ErrorsBeforeLookup \cup {Err.NameInUse}
            /\ aReq.lookup = "error" =>
                  /\ ~aResp'.allowed
                  /\ aResp'.err \in ErrorsBeforeLookup \cup {Err.NameLookup}
            /\ aReq.lookup = "notfound" =>
                  aResp'.err \notin {Err.NameInUse, Err.NameLookup}
       /\ Handled("UPDATE") =>
            aResp'.err \notin {Err.NameInUse, Err.NameLookup}]_vars

\* An UPDATE was allowed although the instance exists by now.
C20_Witness ==
    /\ aResp.op = "UPDATE"
    /\ aResp.allowed
    /\ "sizeMin" \in aResp.patch
    /\ Deref(aStored).name = "db-b"

-----------------------------------------------------------------------------
(* SpecHours: CREATE and UPDATE requests that set the start time of the daily
   backups or the hour of the maintenance window, and nothing else *)

\* The hours of the day in 24-hour format.
HoursOfTheDay ==
    { "00:00", "01:00", "02:00", "03:00", "04:00", "05:00", "06:00", "07:00",
      "08:00", "09:00", "10:00", "11:00", "12:00", "13:00", "14:00", "15:00",
      "16:00", "17:00", "18:00", "19:00", "20:00", "21:00", "22:00", "23:00" }

\* What a client may send as an hour.
HourStrings == HoursOfTheDay \cup {"24:00", "7:00", "12:30", "", ValueAny}

\* A request arrives that sets one of the two hours: a CREATE of the base
\* object when nothing is stored, else an UPDATE of the stored object.
SubmitHour ==
    /\ aReq.op = "NONE"
    /\ \E f \in {"backupStart", "maintHour"}, h \in HourStrings :
           aReq' = IF IsNil(aStored)
                   THEN [op |-> "CREATE",
                         obj |-> Ptr(ApplyEdit(BaseObject, <<f, Ptr(h)>>)),
                         lookup |-> "notfound"]
                   ELSE [op |-> "UPDATE",
                         obj |-> Ptr(ApplyEdit(Deref(aStored), <<f, Ptr(h)>>)),
                         lookup |-> "found"]
    /\ aResp' = NoResponse
    /\ UNCHANGED <<aStored, notAdm>>

NextHours == SubmitHour \/ Handle

SpecHours == InitAdmission /\ [][NextHours]_vars

\* The hour the object sent holds in the field f, or will hold by default.
HourSent(f) ==
    IF ~IsNil(Deref(aReq.obj)[f]) THEN Deref(Deref(aReq.obj)[f])
    ELSE IF f = "backupStart" THEN PostgresqlInstanceSpecDefault.BackupsDailyStartTime
    ELSE PostgresqlInstanceSpecDefault.MaintenanceHour

(* C16 as stated: a request that is valid in everything else is let through
   if and only if its start time for daily backups is one of 00:00 to 23:00
   and its maintenance hour is one of these or "Any". *)
C16_AsStated ==
    [][(Handled("CREATE") \/ Handled("UPDATE")) =>
          (aResp'.allowed <=>
              /\ HourSent("backupStart") \in HoursOfTheDay
              /\ HourSent("maintHour") \in HoursOfTheDay \cup {ValueAny})]_vars

-----------------------------------------------------------------------------
(* SpecHTTP: HTTP requests reach the endpoint of the webhook, which handles
   each with handleAdmission; the requests it decodes and admits change the
   stored object *)

\* The response that denies a request with the message of an error.
admissionResponseFromError(err) ==
    [allowed |-> FALSE, message |-> err, patch |-> {}, uid |-> ""]

\* What the deserializer makes of the bodies sent: the error it returns
\* (none: "") and the request it leaves in the AdmissionReview (nil: none).
\* A body that is no JSON document, or names no kind, leaves no request; a
\* body whose request holds a field of the wrong type may leave the request
\* with the fields read before it.
UndecodableBodies ==
    { [err |-> "couldn't get version/kind; json parse error", request |-> NilPtr],
      [err |-> "json: cannot unmarshal number into Go struct field",
       request |-> Ptr([uid |-> "uid-2", resource |-> "", operation |-> "",
                        obj |-> NilPtr, lookup |-> "notfound"])] }

\* A body that decodes, for the object stored: an AdmissionReview without
\* request (resource ""), or a request for a PostgresqlInstance resource or
\* a pod, whose object is the base object or the object stored with the
\* change e.
DecodableBody(stored, res, op, e, l) ==
    [ err |-> "",
      request |->
          IF res = "" THEN NilPtr
          ELSE Ptr([uid |-> "uid-1", resource |-> res, operation |-> op,
                    obj |-> IF op = "CREATE"
                            THEN Ptr(ApplyEdit(BaseObject, e))
                            ELSE IF op = "UPDATE"
                            THEN Ptr(ApplyEdit(Deref(stored), e))
                            ELSE NilPtr,
                    lookup |-> l]) ]

\* The changes made to the objects sent.
HTTPEdits == {e \in Edits : e[1] \in {"anno", "name", "sizeMin"}}

\* The response to a request whose object went through the pipeline with
\* the result r: a denial with the message of the error, or an admission
\* with the patch that turns the object sent into the mutated one.  The
\* object stored afterwards is the mutated one.
admissionResponseWithPatch(request, stored, r) ==
    IF r.err # Err.None
    THEN [response |-> admissionResponseFromError(r.err), stored |-> stored]
    ELSE [ response |->
               [ allowed |-> TRUE, message |-> "",
                 patch |-> IF IsNil(request.obj) THEN {}
                           ELSE CreateRFC6902Patch(Deref(request.obj),
                                                   Deref(r.obj)),
                 uid |-> "" ],
           stored |-> r.obj ]

\* validateAndMutateResource for a request and the object stored: the
\* response, and the object stored once the API server has acted on it.
validateAndMutateResource(request, stored) ==
    IF request.resource # "postgresqlinstances"
    THEN [ response |-> admissionResponseFromError(
                            "failed to validate resource with unsupported gvr"),
           stored |-> stored ]
    ELSE IF request.operation \notin {"CREATE", "UPDATE", "DELETE"}
    THEN [ response |-> admissionResponseFromError("unsupported operation"),
           stored |-> stored ]
    ELSE admissionResponseWithPatch(request, stored,
             validateAndMutatePostgresqlInstance(
                 request.obj,
                 IF request.operation = "CREATE" THEN NilPtr ELSE stored,
                 request.lookup))

\* The response written for a request that was decoded: the AdmissionReview
\* with the response r and the UID of the request.
WriteReview(r, uid) ==
    [ res |-> HTTPResult(200, Ptr([r.response EXCEPT !.uid = uid]), FALSE),
      stored |-> r.stored ]

\* handleAdmission for a request and the object stored: what the endpoint
\* does with the request, and the object stored afterwards.  Setting the
\* UID of the response reads the request of the AdmissionReview decoded,
\* which panics when there is none; so does validateAndMutateResource.
handleAdmission(req, stored) ==
    LET end(status, panicked) ==
            [res |-> HTTPResult(status, NilPtr, panicked), stored |-> stored]
    IN IF req.method # "POST" THEN end(405, FALSE)
       ELSE IF req.contentType # "application/json" THEN end(415, FALSE)
       ELSE IF IsNil(req.body.request) THEN end(0, TRUE)
       ELSE IF req.body.err # ""
       THEN WriteReview([ response |-> admissionResponseFromError(req.body.err),
                          stored |-> stored ],
                        Deref(req.body.request).uid)
       ELSE WriteReview(validateAndMutateResource(Deref(req.body.request),
                                                  stored),
                        Deref(req.body.request).uid)

InitHTTP ==
    /\ HTTPIdle
    /\ AdmIdle
    /\ CondIdle
    /\ DriftIdle
    /\ ReconIdle
    /\ PodIdle
    /\ BootIdle
    /\ NamesIdle

\* A request reaches the endpoint.
HTTPArrive ==
    /\ IsNil(hReq)
    /\ \E method \in {"POST", "GET"},
          contentType \in {"application/json", "application/yaml"} :
           \/ \E body \in UndecodableBodies :
                  hReq' = Ptr([method |-> method, contentType |-> contentType,
                               body |-> body])
           \/ \E res \in {"", "postgresqlinstances", "pods"},
                 op \in IF IsNil(aStored) THEN {"CREATE", "CONNECT"}
                        ELSE {"UPDATE", "DELETE"},
                 e \in HTTPEdits,
                 l \in {"notfound", "found"} :
                  hReq' = Ptr([method |-> method, contentType |-> contentType,
                               body |-> DecodableBody(aStored, res, op, e, l)])
    /\ UNCHANGED <<hRes, aStored, notHTTP>>

\* The endpoint handles the request.
HTTPHandle ==
    /\ ~IsNil(hReq)
    /\ LET r == handleAdmission(Deref(hReq), aStored)
       IN /\ hRes' = r.res
          /\ aStored' = r.stored
    /\ hReq' = NilPtr
    /\ UNCHANGED notHTTP

NextHTTP == HTTPArrive \/ HTTPHandle

SpecHTTP == InitHTTP /\ [][NextHTTP]_vars

\* The step is the handling of a request.
HTTPHandled == ~IsNil(hReq) /\ IsNil(hReq')

(* C22 as stated: a POST request with content type application/json whose
   body does not decode is answered with an AdmissionReview whose response
   denies the request and carries the message of the decode error. *)
C22_AsStated ==
    [][ ( /\ HTTPHandled
          /\ Deref(hReq).method = "POST"
          /\ Deref(hReq).contentType = "application/json"
          /\ Deref(hReq).body.err # "" )
        => /\ ~hRes'.panicked
           /\ ~IsNil(hRes'.review)
           /\ ~Deref(hRes'.review).allowed
           /\ Deref(hRes'.review).message = Deref(hReq).body.err ]_vars

-----------------------------------------------------------------------------
(* SpecPod: pods are created in a namespace while the PostgresqlInstance
   they name, its connection name and its secret come into being; the
   webhook handles every creation with mutatePod *)

\* A container of an application, declaring the given ports.
AppContainer(name, ports) ==
    [name |-> name, command |-> <<>>, ports |-> ports,
     volumeMounts |-> <<>>, env |-> <<>>]

\* The pods that users create.
BasePods ==
    { [annotations |-> <<>>, volumes |-> <<>>,
       containers |-> <<AppContainer("app", {})>>],
      [annotations |-> (PostgresqlInstanceNameAnnotationKey :> ""),
       volumes |-> <<>>,
       containers |-> <<AppContainer("app", {})>>],
      [annotations |-> (PostgresqlInstanceNameAnnotationKey :> "db"),
       volumes |-> <<>>,
       containers |->
           <<AppContainer("app", {cloudSQLProxyContainerPortMinValue})>>],
      [annotations |-> (PostgresqlInstanceNameAnnotationKey :> "db"),
       volumes |-> <<"data">>,
       containers |->
           <<AppContainer("app", {}),
             AppContainer("metrics",
                          {cloudSQLProxyContainerPortMinValue + 1})>>] }

\* The passwords that the secret of the instance may hold, as sequences of
\* characters.
PodPasswords == { <<"a">>, <<"\\", ":">> }

InitPod ==
    PodIdle /\ CondIdle /\ AdmIdle /\ DriftIdle /\ ReconIdle /\ HTTPIdle /\ BootIdle
    /\ NamesIdle

\* The PostgresqlInstance "db" is created; no connection name is reported
\* in its status yet.
InstanceCreated ==
    /\ IsNil(pStore.instance)
    /\ \E ips \in {<<TRUE, FALSE>>, <<FALSE, TRUE>>} :
           pStore' = [pStore EXCEPT !.instance =
                          Ptr([connectionName |-> "",
                               publicIP |-> ips[1], privateIP |-> ips[2]])]
    /\ UNCHANGED <<pReq, pResp, pLog, notPod>>

\* The connection name of the instance is reported in the status.
ConnectionNameReported ==
    /\ ~IsNil(pStore.instance)
    /\ Deref(pStore.instance).connectionName = ""
    /\ pStore' = [pStore EXCEPT !.instance =
                      Ptr([Deref(@) EXCEPT !.connectionName = "project:region:db"])]
    /\ UNCHANGED <<pReq, pResp, pLog, notPod>>

\* The secret of the instance is created, or its password changes.
SecretWritten ==
    /\ ~IsNil(pStore.instance)
    /\ \E pw \in PodPasswords :
           /\ pStore.secret # Ptr([username |-> "postgres", password |-> pw])
           /\ pStore' = [pStore EXCEPT !.secret =
                             Ptr([username |-> "postgres", password |-> pw])]
    /\ UNCHANGED <<pReq, pResp, pLog, notPod>>

\* The creation of a pod reaches the webhook: a pod of a user, or the pod
\* that the last response returned, sent as it is.
PodSubmit ==
    /\ IsNil(pReq)
    /\ Len(pLog) < MaxPodRequests
    /\ \E pod \in BasePods \cup (IF IsNil(pResp.pod) THEN {} ELSE {Deref(pResp.pod)}),
          fault \in {"none", "Secrets.Create", "Secrets.Patch"} :
           /\ Len(pod.containers) <= MaxContainers
           /\ pReq' = Ptr([pod |-> pod, fault |-> fault])
    /\ UNCHANGED <<pStore, pResp, pLog, notPod>>

\* The webhook handles the creation with mutatePod.
PodHandle ==
    /\ ~IsNil(pReq)
    /\ \E r \in mutatePod(Deref(pReq).pod, pStore, Deref(pReq).fault) :
           /\ pResp' = [pod |-> r.pod, err |-> r.err, calls |-> r.calls]
           /\ pStore' = [pStore EXCEPT !.local = r.local]
           /\ pLog' = Append(pLog, r.err)
    /\ pReq' = NilPtr
    /\ UNCHANGED notPod

NextPod ==
    \/ InstanceCreated
    \/ ConnectionNameReported
    \/ SecretWritten
    \/ PodSubmit
    \/ PodHandle

SpecPod == InitPod /\ [][NextPod]_vars

\* The step is the handling of a pod creation.
PodHandled == ~IsNil(pReq) /\ IsNil(pReq')

\* The pod names a PostgresqlInstance.
NamesInstance(pod) ==
    /\ PostgresqlInstanceNameAnnotationKey \in DOMAIN pod.annotations
    /\ pod.annotations[PostgresqlInstanceNameAnnotationKey] # ""

\* The pod carries the annotation that marks it as injected.
IsInjected(pod) ==
    /\ ProxyInjectedAnnotationKey \in DOMAIN pod.annotations
    /\ pod.annotations[ProxyInjectedAnnotationKey] = "true"

\* How many containers of the pod are the proxy.
Sidecars(pod) ==
    Cardinality({ i \in 1..Len(pod.containers) :
        pod.containers[i].name = PodConstants.cloudSQLProxyContainerName })

(* C17: when the creation of a pod that names a PostgresqlInstance is
   handled while the status of that instance holds no connection name, the
   handler returns an error and no pod (so that nothing is injected: no
   sidecar, volume, environment variable or annotation), it sends no write
   for the namespace-local secret and leaves it as it was, and it ends, so
   that the creations that follow are handled; when the secret of the
   instance exists, the error is the one about the connection name. *)
C17_NoConnectionName ==
    [][ ( /\ PodHandled
          /\ NamesInstance(Deref(pReq).pod)
          /\ ~IsNil(pStore.instance)
          /\ Deref(pStore.instance).connectionName = "" )
        => /\ pResp'.err # PodErr.None
           /\ ~IsNil(pStore.secret) => pResp'.err = PodErr.ConnectionName
           /\ IsNil(pResp'.pod)
           /\ pResp'.calls = <<>>
           /\ pStore' = pStore
           /\ Len(pLog') = Len(pLog) + 1 ]_vars

\* A creation failed for want of a connection name, nothing was written,
\* and a later creation was handled and injected.
C17_Witness ==
    /\ \E i \in 1..Len(pLog) : i < Len(pLog) /\ pLog[i] = PodErr.ConnectionName
    /\ pLog[Len(pLog)] = PodErr.None
    /\ ~IsNil(pResp.pod)
    /\ Sidecars(Deref(pResp.pod)) = 1

(* C18 as stated: when the pod sent is one that a previous mutation
   returned, carrying the annotation that marks it as injected, and the
   handler returns no error, the pod it returns is the pod sent: no second
   sidecar, volume, volume mount or environment variable. *)
C18_AsStated ==
    [][ ( /\ PodHandled
          /\ IsInjected(Deref(pReq).pod)
          /\ pResp'.err = PodErr.None )
        => pResp'.pod = Ptr(Deref(pReq).pod) ]_vars

\* The port that the proxy of an injected pod listens on: the container of
\* the proxy is the last one.
ProxyPort(pod) == pod.containers[Len(pod.containers)].command[2]

\* The value of the variable PGPORT in a container: the last one set.
PortVariable(container) ==
    LET at == {k \in DOMAIN container.env :
                  container.env[k][1] = PodConstants.pgportEnvVarName}
    IN IF at = {} THEN NilPtr
       ELSE Ptr(container.env[CHOOSE k \in at : \A j \in at : j <= k][2])

(* C35: when the handler returns a pod in which it has injected the proxy,
   the port that the proxy listens on, which is the only port its container
   declares, is declared by none of the containers that the pod had when it
   was sent, and it is the value of the variable PGPORT in every one of
   those containers. *)
C35_FreePort ==
    [][ ( /\ PodHandled
          /\ NamesInstance(Deref(pReq).pod)
          /\ ~IsNil(pResp'.pod) )
        => LET sent == Deref(pReq).pod
               pod == Deref(pResp'.pod)
               n == Len(sent.containers)
           IN /\ Len(pod.containers) = n + 1
              /\ pod.containers[n + 1].name = PodConstants.cloudSQLProxyContainerName
              /\ pod.containers[n + 1].ports = {ProxyPort(pod)}
              /\ ProxyPort(pod) \in cloudSQLProxyContainerPorts
              /\ \A i \in 1..n :
                     /\ ProxyPort(pod) \notin sent.containers[i].ports
                     /\ PortVariable(pod.containers[i]) = Ptr(ProxyPort(pod)) ]_vars

\* The proxy was injected into a pod of two containers that declare two
\* ports of the range between them: it listens on another one.
C35_Witness ==
    /\ ~IsNil(pResp.pod)
    /\ Len(Deref(pResp.pod).containers) = 3
    /\ Cardinality(UNION {Deref(pResp.pod).containers[i].ports : i \in 1..3}) = 3
    /\ ProxyPort(Deref(pResp.pod)) \notin
           UNION {Deref(pResp.pod).containers[i].ports : i \in 1..2}
    /\ \A i \in 1..2 :
           PortVariable(Deref(pResp.pod).containers[i])
               = Ptr(ProxyPort(Deref(pResp.pod)))

-----------------------------------------------------------------------------
(* SpecDrift: passes of the reconciler that reach maybeUpdateInstance for a
   running instance, between which the resource is updated (through the
   admission pipeline) and the settings of the remote instance are changed
   by others. *)

\* The most settings in which the remote instance is made to differ from
\* the desired ones by changes made to it by others.
MaxDrift == 1

\* The resources the instance is created from: the base object, and one with
\* a fixed disk size.
DriftCreateEdits == { <<"sizeMin", NilPtr>>, <<"sizeMax", Ptr(10)>> }

\* The changes made to the resource.
DriftSpecEdits ==
    { <<"sizeMin", Ptr(20)>>, <<"zone", Ptr("europe-west1-b")>>,
      <<"zone", Ptr(ValueAny)>>, <<"availType", Ptr("Regional")>>,
      <<"flags", Ptr(<<"a=b">>)>>, <<"flags", Ptr(<<>>)>> }

\* The changes others make to the settings of the remote instance.
DriftRemoteEdits ==
    { <<"dataDiskSizeGb", 50>>, <<"tier", "db-f1-micro">>,
      <<"zone", "europe-west1-c">>, <<"dataDiskType", "PD_HDD">>,
      <<"ipv4Enabled", FALSE>>, <<"maintenanceHour", 5>> }

\* The settings in which an instance differs from the desired ones.
DriftedFields(o, inst) ==
    {f \in SettingsFields : inst.settings[f] # buildDatabaseInstanceSettings(o)[f]}

InitDrift ==
    /\ \E e \in DriftCreateEdits :
           DriftStart(RunPipeline(1, ApplyEdit(BaseObject, e), NilPtr, "notfound").obj)
    /\ CondIdle
    /\ AdmIdle
    /\ ReconIdle
    /\ PodIdle
    /\ HTTPIdle
    /\ BootIdle
    /\ NamesIdle

\* One pass, from the instance read to the end of maybeUpdateInstance.  An
\* update that succeeds takes effect on the remote instance.
DriftPass ==
    \E outcome \in CallOutcomes :
        LET r == maybeUpdateInstance(dSpec, dRemote, dConds, outcome, cNow)
        IN /\ dDrifted' = DriftedFields(dSpec, dRemote)
           /\ dConds' = r.conds
           /\ dSubmitted' = r.submitted
           /\ dCall' = r.call
           /\ dRemote' = IF r.call = "ok" THEN RemoteStored(Deref(r.submitted))
                         ELSE dRemote
           /\ dQuiet' = IF r.call # "none" THEN 0
                        ELSE IF dQuiet = 0 THEN 1 ELSE 2
           /\ dPrev' = dCall
           /\ UNCHANGED <<dSpec, notDrift>>

\* The resource is updated; the update passes the admission pipeline.
DriftEditSpec ==
    \E e \in DriftSpecEdits :
        LET r == validateAndMutatePostgresqlInstance(
                     Ptr(ApplyEdit(dSpec, e)), Ptr(dSpec), "notfound")
        IN /\ r.err = Err.None
           /\ Deref(r.obj) # dSpec
           /\ dSpec' = Deref(r.obj)
           /\ dDrifted' = {}
           /\ dSubmitted' = NilPtr
           /\ dCall' = "idle"
           /\ dQuiet' = 0
           /\ dPrev' = "idle"
           /\ UNCHANGED <<dRemote, dConds, notDrift>>

\* Someone else changes one setting of the remote instance.
DriftRemote ==
    \E e \in DriftRemoteEdits :
        /\ dRemote.settings[e[1]] # e[2]
        /\ Cardinality(DriftedFields(dSpec, dRemote)) < MaxDrift
        /\ dRemote' = [dRemote EXCEPT !.settings[e[1]] = e[2]]
        /\ dDrifted' = {}
        /\ dSubmitted' = NilPtr
        /\ dCall' = "idle"
        /\ dQuiet' = 0
        /\ dPrev' = "idle"
        /\ UNCHANGED <<dSpec, dConds, notDrift>>

NextDrift == DriftPass \/ DriftEditSpec \/ DriftRemote

SpecDrift == InitDrift /\ [][NextDrift]_vars

\* The passes for a resource that is not edited, while others change the
\* remote instance.  The informers resync periodically and every resync
\* enqueues the resource, so that passes keep being made.
NextDriftFair == DriftPass \/ DriftRemote

SpecDriftFair == InitDrift /\ [][NextDriftFair]_vars /\ WF_vars(DriftPass)

\* A step that is a pass.
IsDriftPass == dCall' # "idle"

\* The settings as desired before and after the step.
Desired == buildDatabaseInstanceSettings(dSpec)

(* C6: a pass that finds the observed settings equal to the settings derived
   from the resource issues no update and sets UpToDate to True with reason
   InstanceUpToDate; it leaves the remote instance and the resource as they
   were, so that the same holds of every pass that follows it. *)
C6_NoUpdateWhenUpToDate ==
    [][(IsDriftPass /\ dRemote.settings = Desired) =>
          /\ dCall' = "none"
          /\ dSubmitted' = NilPtr
          /\ ConditionIs(dConds', ConditionTypeUpToDate, ConditionTrue,
                         Reason.InstanceUpToDate)
          /\ dRemote' = dRemote
          /\ dSpec' = dSpec]_vars

\* Two passes in a row found nothing to update, after the disk had been
\* grown by an earlier update.
C6_Witness ==
    /\ dQuiet = 2
    /\ dCall = "none"
    /\ dDrifted = {}
    /\ dRemote.settings = Desired
    /\ dRemote.settings.dataDiskSizeGb = 20
    /\ ConditionIs(dConds, ConditionTypeUpToDate, ConditionTrue, Reason.InstanceUpToDate)

\* The settings in which the observed instance differs from the desired ones.
Drifted == DriftedFields(dSpec, dRemote)

\* The update submitted carries the desired value in the fields of D and the
\* observed value in every other field of the instance.
SubmittedChangesOnly(D) ==
    /\ dCall' \in CallOutcomes
    /\ dSubmitted' # NilPtr
    /\ \A f \in D : Deref(dSubmitted').settings[f] = Desired[f]
    /\ \A g \in SettingsFields \ D :
           Deref(dSubmitted').settings[g] = dRemote.settings[g]
    /\ \A g \in InstanceFields \ {"settings"} : Deref(dSubmitted')[g] = dRemote[g]

(* C7 as stated: a pass that finds the observed settings differing from the
   desired ones in exactly one field issues an update that carries the
   desired value in that field and the observed value in every other. *)
C7_AsStated ==
    [][(IsDriftPass /\ Cardinality(Drifted) = 1) => SubmittedChangesOnly(Drifted)]_vars

\* The one differing field is the zone while the resource asks for no zone,
\* or the disk type.
NotChecked(f) ==
    \/ f = "dataDiskType"
    \/ f = "zone" /\ Deref(dSpec.zone) = ValueAny

(* C7: a pass that finds the observed settings differing from the desired
   ones in exactly one field issues an update that carries the desired value
   in that field and the observed value in every other field of the
   instance, provided the field is one the drift check compares: when the
   field is the disk type, or the zone of a resource that asks for no zone,
   no update is issued. *)
C7_SingleFieldUpdate ==
    [][(IsDriftPass /\ Cardinality(Drifted) = 1) =>
          \A f \in Drifted :
              IF NotChecked(f)
              THEN dCall' = "none" /\ dSubmitted' = NilPtr
              ELSE SubmittedChangesOnly(Drifted)]_vars

\* An update was submitted for an instance whose disk size alone differed
\* from the desired settings, and it succeeded.
C7_Witness ==
    /\ dCall = "ok"
    /\ dSubmitted # NilPtr
    /\ dDrifted = {"dataDiskSizeGb"}
    /\ Deref(dSubmitted).settings.dataDiskSizeGb = 20
    /\ dRemote.settings = Desired

\* Every setting of the instance, the zone only for a resource that asks for
\* one.
SettingsWithZoneIfAsked ==
    { "availabilityType", "backupEnabled", "backupStartTime", "databaseFlags",
      "dataDiskSizeGb", "dataDiskType", "ipv4Enabled", "privateNetwork",
      "authorizedNetworks", "maintenanceDay", "maintenanceHour",
      "storageAutoResize", "storageAutoResizeLimit", "tier", "userLabels" }
        \cup (IF Deref(dSpec.zone) # ValueAny THEN {"zone"} ELSE {})

\* The drift check on the resource and the instance as they are.
DriftCheck == updateDatabaseInstanceSettings(dSpec, dRemote)

(* C29 as stated: the drift check reports that an update is needed whenever
   the observed settings differ from the desired ones in any setting, the
   disk type included, the zone counting only for a resource that asks for
   one. *)
C29_AsStated ==
    (\E f \in SettingsWithZoneIfAsked : dRemote.settings[f] # Desired[f])
        => DriftCheck.mustUpdate

(* C29: the drift check reports that an update is needed whenever the
   observed settings differ from the desired ones in any setting other than
   the disk type, the zone counting only for a resource that asks for one;
   when they differ in the disk type alone it reports none. *)
C29_DriftDetected ==
    /\ (\E f \in SettingsWithZoneIfAsked \ {"dataDiskType"} :
            dRemote.settings[f] # Desired[f])
          => DriftCheck.mustUpdate
    /\ DriftedFields(dSpec, dRemote) = {"dataDiskType"} => ~DriftCheck.mustUpdate

\* A pass found the instance differing from the desired settings in the
\* public address alone and requested an update, which met a conflict: the
\* difference is still there and the check still reports it.
C29_Witness ==
    /\ dCall = "conflict"
    /\ dDrifted = {"ipv4Enabled"}
    /\ DriftedFields(dSpec, dRemote) = {"ipv4Enabled"}
    /\ DriftCheck.mustUpdate

\* The resource records that the update of the settings met a conflict.
ConflictRecorded ==
    ConditionIs(dConds, ConditionTypeUpToDate, ConditionFalse, Reason.Conflict)

\* The resource records that the settings are up to date.
UpToDateRecorded ==
    /\ HasCondition(dConds, ConditionTypeUpToDate)
    /\ GetCondition(dConds, ConditionTypeUpToDate).status = ConditionTrue

(* C30: a pass for a resource that records UpToDate=False/Conflict compares
   the settings again and, if they still differ, requests the update again;
   and, passes being made again and again, if from some time on no update
   fails, a resource that records the conflict comes to record
   UpToDate=True. *)
C30_ConflictRetried ==
    /\ [][ (IsDriftPass /\ ConflictRecorded) =>
             IF DriftCheck.mustUpdate
             THEN dCall' \in CallOutcomes /\ dSubmitted' = Ptr(DriftCheck.instance)
             ELSE dCall' = "none" /\ UpToDateRecorded' ]_vars
    /\ (<>[](dCall \notin {"conflict", "badrequest", "error"}))
          => (ConflictRecorded ~> UpToDateRecorded)

\* The update met a conflict, which was recorded, and the pass after it
\* requested the update again, with success: the instance has the desired
\* settings and the resource records UpToDate=True/InstanceUpdated.
C30_Witness ==
    /\ dPrev = "conflict"
    /\ dCall = "ok"
    /\ dDrifted # {}
    /\ dRemote.settings = Desired
    /\ ConditionIs(dConds, ConditionTypeUpToDate, ConditionTrue,
                   Reason.InstanceUpdated)

(* C21 as stated: when the maximum disk size of the resource is 0, the
   settings built from it have storage auto-resize disabled. *)
C21_AsStated ==
    Deref(dSpec.sizeMax) = 0
        => ~buildDatabaseInstanceSettings(dSpec).storageAutoResize

(* C21: the settings built from an admitted resource have storage
   auto-resize disabled exactly when the maximum disk size equals the
   minimum one; when the maximum disk size is 0 they have it enabled, with
   limit 0.  These are the values of the instance created from the resource
   and of every update submitted for it. *)
C21_AutoResize ==
    LET s == buildDatabaseInstanceSettings(dSpec)
        Same(t) == /\ t.storageAutoResize = s.storageAutoResize
                   /\ t.storageAutoResizeLimit = s.storageAutoResizeLimit
    IN /\ s.storageAutoResize <=> Deref(dSpec.sizeMax) # Deref(dSpec.sizeMin)
       /\ Deref(dSpec.sizeMax) = 0
              => (s.storageAutoResize /\ s.storageAutoResizeLimit = 0)
       /\ Same(dRemote.settings)
       /\ dSubmitted # NilPtr => Same(Deref(dSubmitted).settings)

\* An update was submitted, and succeeded, for a resource whose maximum disk
\* size is 0: it has auto-resize enabled, with limit 0.
C21_Witness ==
    /\ Deref(dSpec.sizeMax) = 0
    /\ dCall = "ok"
    /\ dSubmitted # NilPtr
    /\ Deref(dSubmitted).settings.storageAutoResize
    /\ Deref(dSubmitted).settings.storageAutoResizeLimit = 0

-----------------------------------------------------------------------------
(* Spec: one worker reconciles one resource, pass after pass, each call it
   makes being one step; between any two steps the resource may be updated
   or deleted (both through admission), the operation running on the remote
   instance may complete and the password of the secret may be emptied.
   The lister returns the resource as stored when the pass starts. *)

\* The most calls that end with an error, not counting the deferred patch
\* of the status in a pass whose body failed, which may fail too.
MaxFailures == 1

\* The updates made to the resource.
ReconSpecEdits ==
    { <<"sizeMin", Ptr(20)>>, <<"paused", TRUE>>, <<"paused", FALSE>>,
      <<"anno", Ptr(True)>> }

Init ==
    ReconIdle /\ CondIdle /\ AdmIdle /\ DriftIdle /\ PodIdle /\ HTTPIdle /\ BootIdle
    /\ NamesIdle

\* The call is recorded; one that fails counts as a failure.
Called(call, outcome, failed) ==
    /\ failed => rFails < MaxFailures
    /\ rFails' = IF failed THEN rFails + 1 ELSE rFails
    /\ rLog' = rLog \cup {<<call, outcome>>}

\* How a lookup ends: with an error, or by whether the thing exists.
LookupOutcomes(thing) ==
    {"error"} \cup (IF thing = NilPtr THEN {"notfound"} ELSE {"found"})

\* The pass starts: the lister is read, and the worker goes to its first
\* call, if any.
Start ==
    /\ rPc = "idle"
    /\ rLog' = {}
    /\ rErr' = NoError
    /\ rInst' = NilPtr
    /\ rPw' = 0
    /\ rStore' = IF rStore = NilPtr THEN NilPtr
                 ELSE Ptr([Deref(rStore) EXCEPT !.resourceVersion = "read"])
    /\ rI' = rStore'
    /\ IF rStore = NilPtr
       THEN rP' = NilPtr /\ rPc' = "idle"
       ELSE LET r == Deref(rStore')
            IN /\ rP' = IF NeedsFinalizer(r)
                        THEN Ptr([r EXCEPT !.finalizer = TRUE]) ELSE rStore'
               /\ rPc' = IF Terminating(r)
                         THEN (IF r.finalizer THEN "delGet" ELSE "idle")
                         ELSE IF NeedsFinalizer(r) THEN "patchFinalizer"
                         ELSE AfterFinalizer(r)
    /\ UNCHANGED <<rRemote, rSecret, rRemotePw, rHist, notRecon>>

\* The finalizer is persisted; the worker goes on with the resource that
\* the store returns.
PatchFinalizer ==
    /\ rPc = "patchFinalizer"
    /\ \E outcome \in PatchOutcomes(Deref(rI), Deref(rP), rStore) :
           /\ Called("Patch.addFinalizer", outcome, outcome = "error")
           /\ IF outcome = "ok"
              THEN /\ \E kept \in FinalizersOfOthersKept(Deref(rP)) :
                        rStore' = Ptr([Deref(rStore) EXCEPT
                                         !.finalizer = TRUE,
                                         !.others = kept,
                                         !.resourceVersion = "patched"])
                   /\ rP' = rStore'
                   /\ rPc' = AfterFinalizer(Deref(rStore))
                   /\ rErr' = NoError
              ELSE /\ rStore' = rStore
                   /\ rP' = NilPtr
                   /\ rPc' = "idle"
                   /\ rErr' = ErrorOf("Patch.addFinalizer", TRUE)
    /\ UNCHANGED <<rRemote, rSecret, rRemotePw, rI, rInst, rPw,
                   rCreates, rPwSets, rCleared, notRecon>>

\* deleteInstance: the instance is looked up.
DeleteGet ==
    /\ rPc = "delGet"
    /\ \E outcome \in LookupOutcomes(rRemote) :
           /\ Called("Instances.Get", outcome, outcome = "error")
           /\ IF DeleteFailed(outcome)
              THEN rPc' = "idle" /\ rErr' = ErrorOf("Instances.Get", TRUE)
              ELSE /\ rPc' = IF outcome = "found" THEN "delete" ELSE "patchRemove"
                   /\ rErr' = NoError
    /\ UNCHANGED <<rEnv, rLocals, rCreates, rPwSets, rCleared, notRecon>>

\* deleteInstance: the instance is deleted.
DeleteCall ==
    /\ rPc = "delete"
    /\ \E outcome \in {"ok", "error"} :
           /\ Called("Instances.Delete", outcome, outcome = "error")
           /\ rRemote' = IF outcome = "ok" THEN NilPtr ELSE rRemote
           /\ IF DeleteFailed(outcome)
              THEN rPc' = "idle" /\ rErr' = ErrorOf("Instances.Delete", TRUE)
              ELSE rPc' = "patchRemove" /\ rErr' = NoError
    /\ UNCHANGED <<rStore, rSecret, rRemotePw, rLocals,
                   rCreates, rPwSets, rCleared, notRecon>>

\* A plausible slip: the pass ends once the instance is deleted, and the
\* finalizer stays.
PatchRemoveFinalizerNotSent ==
    /\ rPc = "patchRemove"
    /\ rPc' = "idle"
    /\ rErr' = NoError
    /\ UNCHANGED <<rEnv, rLocals, rLog, rHist, notRecon>>

\* The finalizer is removed; the store then lets go of the resource.
PatchRemoveFinalizer ==
    /\ rPc = "patchRemove"
    /\ \E outcome \in {"ok", "error"} :
           /\ Called("Patch.removeFinalizer", outcome, outcome = "error")
           /\ rStore' = IF outcome = "ok" THEN NilPtr ELSE rStore
           /\ rErr' = ErrorOf("Patch.removeFinalizer", outcome # "ok")
    /\ rP' = Ptr([Deref(rP) EXCEPT !.finalizer = FALSE])
    /\ rPc' = "idle"
    /\ UNCHANGED <<rRemote, rSecret, rRemotePw, rI, rInst, rPw,
                   rCreates, rPwSets, rCleared, notRecon>>

\* The instance named by the resource is looked up.
InstancesGet ==
    /\ rPc = "get"
    /\ \E outcome \in LookupOutcomes(rRemote) :
           /\ Called("Instances.Get", outcome, outcome = "error")
           /\ rInst' = IF outcome = "found" THEN Ptr(Deref(rRemote).inst) ELSE NilPtr
           /\ rPc' = CASE outcome = "found" -> "opList"
                       [] outcome = "notfound" -> "insert"
                       [] OTHER -> "statusPatch"
           /\ rErr' = ErrorOf("Instances.Get", outcome = "error")
    /\ UNCHANGED <<rEnv, rI, rP, rPw, rCreates, rPwSets, rCleared, notRecon>>

\* createInstance: the creation of the instance is requested.
InstancesInsert ==
    /\ rPc = "insert"
    /\ \E outcome \in CallOutcomes :
           /\ Called("Instances.Insert", outcome, outcome # "ok")
           /\ rP' = Ptr([Deref(rP) EXCEPT
                           !.conds = createInstanceConditions(@, outcome, cNow)])
           /\ rRemote' = IF outcome = "ok"
                         THEN Ptr([ inst |-> [CreatedInstance(Deref(rP).obj)
                                                EXCEPT !.state = "PENDING_CREATE"],
                                    op |-> "PENDING" ])
                         ELSE rRemote
           /\ rPc' = IF outcome = "ok" THEN "getAfterInsert" ELSE "statusPatch"
           /\ rErr' = ErrorOf("Instances.Insert", outcome = "error")
    /\ rCreates' = rCreates + 1
    /\ UNCHANGED <<rStore, rSecret, rRemotePw, rI, rInst, rPw,
                   rPwSets, rCleared, notRecon>>

\* createInstance: the instance is read back.
GetAfterInsert ==
    /\ rPc = "getAfterInsert"
    /\ \E outcome \in LookupOutcomes(rRemote) :
           /\ Called("Instances.Get", outcome, outcome = "error")
           /\ rInst' = IF outcome = "found" THEN Ptr(Deref(rRemote).inst) ELSE NilPtr
           /\ rPc' = IF outcome = "found" THEN "opList" ELSE "statusPatch"
           /\ rErr' = ErrorOf("Instances.Get", outcome # "found")
    /\ UNCHANGED <<rEnv, rI, rP, rPw, rCreates, rPwSets, rCleared, notRecon>>

\* A plausible slip: the activation policy of the instance is not looked at.
ReadinessIgnoresPolicy(op, inst) ==
    LET o == isOperationInProgressOrFailed(op)
    IN IF o.inProgressOrFailed /\ o.errorMessage = ""
       THEN [status |-> ConditionFalse, reason |-> Reason.OperationInProgress,
             message |-> "ongoing", ready |-> FALSE]
       ELSE IF o.inProgressOrFailed
       THEN [status |-> ConditionFalse, reason |-> Reason.UnexpectedError,
             message |-> o.errorMessage, ready |-> FALSE]
       ELSE IF inst.state # "RUNNABLE"
       THEN [status |-> ConditionFalse, reason |-> Reason.InstanceNotReady,
             message |-> inst.state, ready |-> FALSE]
       ELSE [status |-> ConditionTrue, reason |-> Reason.InstanceReady,
             message |-> "ready", ready |-> TRUE]

\* What the worker makes of the last operation and of the instance it read:
\* the Ready condition, and whether it goes on.
Readiness(op, inst) ==
    LET o == isOperationInProgressOrFailed(op)
    IN IF o.inProgressOrFailed /\ o.errorMessage = ""
       THEN [status |-> ConditionFalse, reason |-> Reason.OperationInProgress,
             message |-> "ongoing", ready |-> FALSE]
       ELSE IF o.inProgressOrFailed
       THEN [status |-> ConditionFalse, reason |-> Reason.UnexpectedError,
             message |-> o.errorMessage, ready |-> FALSE]
       ELSE IF inst.state # "RUNNABLE"
       THEN [status |-> ConditionFalse, reason |-> Reason.InstanceNotReady,
             message |-> inst.state, ready |-> FALSE]
       ELSE IF inst.activationPolicy # "ALWAYS"
       THEN [status |-> ConditionFalse, reason |-> Reason.InstanceNotReady,
             message |-> "shut down", ready |-> FALSE]
       ELSE [status |-> ConditionTrue, reason |-> Reason.InstanceReady,
             message |-> "ready", ready |-> TRUE]

\* The operations of the instance are listed, and the Ready condition set.
OperationsList ==
    /\ rPc = "opList"
    /\ \E outcome \in {"ok", "error"} :
           LET r == IF outcome = "error"
                    THEN [status |-> ConditionUnknown, reason |-> Reason.UnexpectedError,
                          message |-> "unknown", ready |-> FALSE]
                    ELSE Readiness(Deref(rRemote).op, Deref(rInst))
           IN /\ Called("Operations.List", outcome, outcome = "error")
              /\ rP' = Ptr([Deref(rP) EXCEPT
                              !.conds = setPostgresqlInstanceCondition(@,
                                  ConditionTypeReady, r.status, r.reason, r.message, cNow)])
              /\ rPc' = IF r.ready THEN "secretGet" ELSE "statusPatch"
              /\ rErr' = ErrorOf("Operations.List", outcome = "error")
    /\ UNCHANGED <<rEnv, rI, rInst, rPw, rCreates, rPwSets, rCleared, notRecon>>

\* Where the worker goes once it holds the secret.
AfterSecret(pw) == IF NeedsPassword(pw) THEN "usersUpdate" ELSE "update"

\* The secret of the resource is read.
SecretsGet ==
    /\ rPc = "secretGet"
    /\ \E outcome \in LookupOutcomes(rSecret) :
           /\ Called("Secrets.Get", outcome, outcome = "error")
           /\ rPc' = CASE outcome = "found" -> AfterSecret(Deref(rSecret))
                       [] outcome = "notfound" -> "secretCreate"
                       [] OTHER -> "statusPatch"
           /\ rErr' = ErrorOf("Secrets.Get", outcome = "error")
    /\ UNCHANGED <<rEnv, rLocals, rCreates, rPwSets, rCleared, notRecon>>

\* createInstanceSecret: the secret is created, empty.
SecretsCreate ==
    /\ rPc = "secretCreate"
    /\ \E outcome \in {"ok", "error"} :
           /\ Called("Secrets.Create", outcome, outcome = "error")
           /\ rSecret' = IF outcome = "ok" THEN Ptr(0) ELSE rSecret
           /\ rPc' = IF outcome = "ok" THEN AfterSecret(0) ELSE "statusPatch"
           /\ rErr' = ErrorOf("Secrets.Create", outcome = "error")
    /\ UNCHANGED <<rStore, rRemote, rRemotePw, rLocals,
                   rCreates, rPwSets, rCleared, notRecon>>

\* A plausible slip: the error of the remote call is dropped, and the
\* password is written to the secret whether it was set or not.
UsersUpdateErrorDropped ==
    /\ rPc = "usersUpdate"
    /\ \E outcome \in {"ok", "error"} :
           /\ Called("Users.Update", outcome, outcome = "error")
           /\ rRemotePw' = IF outcome = "ok" THEN rPwSets + 1 ELSE rRemotePw
           /\ rPwSets' = IF outcome = "ok" THEN rPwSets + 1 ELSE rPwSets
           /\ rPc' = "secretUpdate"
           /\ rErr' = NoError
    /\ rPw' = rPwSets + 1
    /\ UNCHANGED <<rStore, rRemote, rSecret, rI, rP, rInst,
                   rCreates, rCleared, notRecon>>

\* setInstancePassword: a password is generated and set on the remote user.
UsersUpdate ==
    /\ rPc = "usersUpdate"
    /\ \E outcome \in {"ok", "error"} :
           /\ Called("Users.Update", outcome, outcome = "error")
           /\ rRemotePw' = IF outcome = "ok" THEN rPwSets + 1 ELSE rRemotePw
           /\ rPwSets' = IF outcome = "ok" THEN rPwSets + 1 ELSE rPwSets
           /\ rPc' = IF outcome = "ok" THEN "secretUpdate" ELSE "statusPatch"
           /\ rErr' = ErrorOf("Users.Update", outcome = "error")
    /\ rPw' = rPwSets + 1
    /\ UNCHANGED <<rStore, rRemote, rSecret, rI, rP, rInst,
                   rCreates, rCleared, notRecon>>

\* setInstancePassword: the password is written to the secret.
SecretsUpdate ==
    /\ rPc = "secretUpdate"
    /\ \E outcome \in IF rSecret = NilPtr THEN {"notfound"} ELSE {"ok", "error"} :
           /\ Called("Secrets.Update", outcome, outcome = "error")
           /\ rSecret' = IF outcome = "ok" THEN Ptr(rPw) ELSE rSecret
           /\ rPc' = IF outcome = "ok" THEN "update" ELSE "statusPatch"
           /\ rErr' = ErrorOf("Secrets.Update", outcome # "ok")
    /\ UNCHANGED <<rStore, rRemote, rRemotePw, rLocals,
                   rCreates, rPwSets, rCleared, notRecon>>

\* maybeUpdateInstance: the settings are compared and, if they differ, the
\* update of the instance is requested.
InstancesUpdate ==
    /\ rPc = "update"
    /\ \E outcome \in CallOutcomes :
           LET r == maybeUpdateInstance(Deref(rP).obj, Deref(rInst),
                                        Deref(rP).conds, outcome, cNow)
           IN /\ r.call = "none" => outcome = "ok"
              /\ IF r.call = "none"
                 THEN UNCHANGED <<rLog, rFails>>
                 ELSE Called("Instances.Update", outcome, outcome # "ok")
              /\ rP' = Ptr([Deref(rP) EXCEPT !.conds = r.conds])
              /\ rRemote' = IF r.call = "ok"
                            THEN Ptr([ inst |-> RemoteStored(Deref(r.submitted)),
                                       op |-> "PENDING" ])
                            ELSE rRemote
              /\ rPc' = IF r.call = "ok" THEN "getAfterUpdate" ELSE "statusPatch"
              /\ rErr' = ErrorOf("Instances.Update", r.failed)
    /\ UNCHANGED <<rStore, rSecret, rRemotePw, rI, rInst, rPw,
                   rCreates, rPwSets, rCleared, notRecon>>

\* maybeUpdateInstance: the instance is read back.
GetAfterUpdate ==
    /\ rPc = "getAfterUpdate"
    /\ \E outcome \in LookupOutcomes(rRemote) :
           /\ Called("Instances.Get", outcome, outcome = "error")
           /\ rInst' = IF outcome = "found" THEN Ptr(Deref(rRemote).inst) ELSE NilPtr
           /\ rErr' = ErrorOf("Instances.Get", outcome # "found")
    /\ rPc' = "statusPatch"
    /\ UNCHANGED <<rEnv, rI, rP, rPw, rCreates, rPwSets, rCleared, notRecon>>

\* The deferred call: the status is patched with what the working copy
\* changed of it, unless the working copy is the resource that was read.
StatusPatch ==
    /\ rPc = "statusPatch"
    /\ IF rP = rI
       THEN UNCHANGED <<rStore, rErr, rLog, rFails>>
       ELSE \E outcome \in PatchOutcomes(Deref(rI), Deref(rP), rStore) :
                /\ outcome = "error" =>
                       (rFails < MaxFailures \/
                        (rFails = MaxFailures /\ rErr # NoError))
                /\ rFails' = IF outcome \in {"error", "conflict"} /\ rFails <= MaxFailures
                             THEN rFails + 1 ELSE rFails
                /\ rLog' = rLog \cup {<<"Patch.status", outcome>>}
                /\ rStore' =
                       IF outcome = "ok"
                       THEN Ptr([Deref(rStore) EXCEPT
                                   !.conds = IF Deref(rP).conds # Deref(rI).conds
                                             THEN Deref(rP).conds ELSE @,
                                   !.ips = IF Deref(rP).ips # Deref(rI).ips
                                           THEN Deref(rP).ips ELSE @,
                                   !.connectionName =
                                       IF Deref(rP).connectionName
                                              # Deref(rI).connectionName
                                       THEN Deref(rP).connectionName ELSE @,
                                   !.resourceVersion = "newer"])
                       ELSE rStore
                /\ rErr' = NewAggregate(<<ErrorOf("Patch.status", outcome # "ok"), rErr>>)
    /\ rPc' = "idle"
    /\ UNCHANGED <<rRemote, rSecret, rRemotePw, rLocals,
                   rCreates, rPwSets, rCleared, notRecon>>

\* The resource is updated; the update passes the admission pipeline.
UserUpdate ==
    /\ rStore # NilPtr
    /\ \E e \in ReconSpecEdits :
           LET o == Deref(rStore).obj
               r == validateAndMutatePostgresqlInstance(Ptr(ApplyEdit(o, e)), Ptr(o),
                                                        "notfound")
           IN /\ ApplyEdit(o, e) # o
              /\ r.err = Err.None
              /\ rStore' = Ptr([Deref(rStore) EXCEPT !.obj = Deref(r.obj),
                                                      !.resourceVersion = "newer"])
    /\ UNCHANGED <<rRemote, rSecret, rRemotePw, rPc, rLocals, rErr, rLog, rHist,
                   notRecon>>

\* A deletion that no admission precedes.
UserDeleteNotAdmitted ==
    /\ rStore # NilPtr
    /\ ~Deref(rStore).deleting
    /\ rStore' \in {Ptr([Deref(rStore) EXCEPT
                              !.deleting = TRUE,
                              !.others = IF Deref(rStore).finalizer THEN @ ELSE TRUE,
                              !.resourceVersion = "newer"])} \cup
                    (IF Deref(rStore).finalizer THEN {} ELSE {NilPtr})
    /\ UNCHANGED <<rRemote, rSecret, rRemotePw, rPc, rLocals, rErr, rLog, rHist,
                   notRecon>>

\* The resource is deleted, admission allowing: it gets a deletion
\* timestamp if it carries the finalizer; else the store lets go of it, or
\* gives it a deletion timestamp and keeps it for a finalizer of someone
\* else.
UserDelete ==
    /\ rStore # NilPtr
    /\ ~Deref(rStore).deleting
    /\ validateAndMutatePostgresqlInstance(NilPtr, Ptr(Deref(rStore).obj),
                                           "notfound").err = Err.None
    /\ rStore' \in {Ptr([Deref(rStore) EXCEPT
                              !.deleting = TRUE,
                              !.others = IF Deref(rStore).finalizer THEN @ ELSE TRUE,
                              !.resourceVersion = "newer"])} \cup
                    (IF Deref(rStore).finalizer THEN {} ELSE {NilPtr})
    /\ UNCHANGED <<rRemote, rSecret, rRemotePw, rPc, rLocals, rErr, rLog, rHist,
                   notRecon>>

\* The operation running on the remote instance completes.
OperationCompletes ==
    /\ rRemote # NilPtr
    /\ Deref(rRemote).op = "PENDING"
    /\ rRemote' = Ptr([Deref(rRemote) EXCEPT !.op = "DONE", !.inst.state = "RUNNABLE"])
    /\ UNCHANGED <<rStore, rSecret, rRemotePw, rPc, rLocals, rErr, rLog, rHist,
                   notRecon>>

\* Someone else adds a finalizer of theirs to the resource.
OtherFinalizer ==
    /\ rStore # NilPtr
    /\ ~Deref(rStore).others
    /\ ~Deref(rStore).deleting
    /\ rStore' = Ptr([Deref(rStore) EXCEPT !.others = TRUE,
                                            !.resourceVersion = "newer"])
    /\ UNCHANGED <<rRemote, rSecret, rRemotePw, rPc, rLocals, rErr, rLog, rHist,
                   notRecon>>

\* The operation running on the remote instance ends with errors.
OperationFails ==
    /\ rRemote # NilPtr
    /\ Deref(rRemote).op = "PENDING"
    /\ rRemote' = Ptr([Deref(rRemote) EXCEPT !.op = "FAILED"])
    /\ UNCHANGED <<rStore, rSecret, rRemotePw, rPc, rLocals, rErr, rLog, rHist,
                   notRecon>>

\* The running instance is suspended, or shut down by setting its
\* activation policy to NEVER, on the remote side.
InstanceStops ==
    /\ rRemote # NilPtr
    /\ Deref(rRemote).op = "DONE"
    /\ Deref(rRemote).inst.state = "RUNNABLE"
    /\ Deref(rRemote).inst.activationPolicy = "ALWAYS"
    /\ \/ rRemote' = Ptr([Deref(rRemote) EXCEPT !.inst.state = "SUSPENDED"])
       \/ rRemote' = Ptr([Deref(rRemote) EXCEPT !.inst.activationPolicy = "NEVER"])
    /\ UNCHANGED <<rStore, rSecret, rRemotePw, rPc, rLocals, rErr, rLog, rHist,
                   notRecon>>

\* Someone empties the password of the secret.
SecretCleared ==
    /\ rSecret # NilPtr
    /\ Deref(rSecret) # 0
    /\ ~rCleared
    /\ rSecret' = Ptr(0)
    /\ rCleared' = TRUE
    /\ UNCHANGED <<rStore, rRemote, rRemotePw, rPc, rLocals, rErr, rLog,
                   rCreates, rPwSets, rFails, notRecon>>

Next ==
    \/ Start \/ PatchFinalizer \/ DeleteGet \/ DeleteCall \/ PatchRemoveFinalizer
    \/ InstancesGet \/ InstancesInsert \/ GetAfterInsert \/ OperationsList
    \/ SecretsGet \/ SecretsCreate \/ UsersUpdate \/ SecretsUpdate
    \/ InstancesUpdate \/ GetAfterUpdate \/ StatusPatch
    \/ UserUpdate \/ UserDelete \/ OperationCompletes \/ SecretCleared

Spec == Init /\ [][Next]_vars

\* A resource is created that may be deleted, and never updated: the
\* remote instance is not updated either, as its settings stay the desired
\* ones.
InitFair ==
    /\ ReconStart(RunPipeline(1, ApplyEdit(BaseObject, <<"anno", Ptr(True)>>),
                              NilPtr, "notfound").obj)
    /\ CondIdle /\ AdmIdle /\ DriftIdle /\ PodIdle /\ HTTPIdle /\ BootIdle
    /\ NamesIdle

\* A step of the worker in a pass.
WorkerStep ==
    \/ Start \/ PatchFinalizer \/ DeleteGet \/ DeleteCall \/ PatchRemoveFinalizer
    \/ InstancesGet \/ InstancesInsert \/ GetAfterInsert \/ OperationsList
    \/ SecretsGet \/ SecretsCreate \/ UsersUpdate \/ SecretsUpdate
    \/ InstancesUpdate \/ StatusPatch

NextFair == WorkerStep \/ UserDelete \/ OperationCompletes

\* The worker goes on with the pass it is in, and the key of the resource
\* is handed to it again and again: it is queued again after a pass that
\* returns an error and at every resynchronisation.
SpecFair == InitFair /\ [][NextFair]_vars /\ WF_vars(WorkerStep)

\* The passes for a resource that is not deleted, while operations may fail
\* and the instance may stop on the remote side.
NextRemote ==
    \/ Start \/ PatchFinalizer
    \/ InstancesGet \/ InstancesInsert \/ GetAfterInsert \/ OperationsList
    \/ SecretsGet \/ SecretsCreate \/ UsersUpdate \/ SecretsUpdate
    \/ InstancesUpdate \/ GetAfterUpdate \/ StatusPatch
    \/ UserUpdate \/ OperationCompletes \/ OperationFails \/ InstanceStops

SpecRemote == Init /\ [][NextRemote]_vars

\* The passes for a resource that is not deleted, while its object is
\* updated and others add finalizers of theirs.
NextShared ==
    \/ Start \/ PatchFinalizer
    \/ InstancesGet \/ InstancesInsert \/ GetAfterInsert \/ OperationsList
    \/ SecretsGet \/ SecretsCreate \/ UsersUpdate \/ SecretsUpdate
    \/ InstancesUpdate \/ GetAfterUpdate \/ StatusPatch
    \/ UserUpdate \/ OperationCompletes \/ OtherFinalizer

SpecShared == Init /\ [][NextShared]_vars

\* The worker is in a pass, or has ended one, for a resource that had no
\* deletion timestamp when it was read.
PassNotDeleting == rI # NilPtr /\ ~Deref(rI).deleting

\* The worker is about to make a remote call of a pass for a resource that
\* is not being deleted.
AtRemoteCall ==
    rPc \in {"get", "insert", "getAfterInsert", "opList", "usersUpdate", "update",
             "getAfterUpdate"}

StoreHasFinalizer == rStore # NilPtr /\ Deref(rStore).finalizer

AddFinalizerFailed ==
    \E c \in rLog : c[1] = "Patch.addFinalizer" /\ c[2] # "ok"

(* C2: in a pass for a resource that is not being deleted, the worker makes
   (or is about to make) a remote call only while the stored resource
   carries the finalizer; and a pass in which the finalizer could not be
   persisted has ended, with an error and without any remote call. *)
C2_FinalizerBeforeRemoteCalls ==
    PassNotDeleting =>
        /\ (AtRemoteCall \/ RemoteCallsIn(rLog) # {}) => StoreHasFinalizer
        /\ AddFinalizerFailed =>
              (rPc = "idle" /\ rErr # NoError /\ RemoteCallsIn(rLog) = {})

\* The finalizer was persisted in this pass, and then the creation of the
\* instance was requested.
C2_Witness ==
    /\ PassNotDeleting
    /\ ~Deref(rI).finalizer
    /\ <<"Patch.addFinalizer", "ok">> \in rLog
    /\ <<"Instances.Insert", "ok">> \in rLog
    /\ StoreHasFinalizer

\* The stored resource, being deleted, carries the finalizer before the
\* step and no longer after it.
FinalizerRemoved ==
    /\ StoreHasFinalizer
    /\ Deref(rStore).deleting
    /\ rStore' = NilPtr \/ ~Deref(rStore').finalizer

\* The pass for a resource being deleted in which the lookup or the
\* deletion of the instance failed.
DeleteInstanceFailed ==
    /\ rI # NilPtr
    /\ Deref(rI).deleting
    /\ Deref(rI).finalizer
    /\ <<"Instances.Get", "error">> \in rLog \/ <<"Instances.Delete", "error">> \in rLog

(* C3: the finalizer of a resource being deleted is removed only by a step
   of a pass in which the instance was reported not found or its deletion
   succeeded; a pass in which the lookup or the deletion failed has ended
   with an error, and the resource is still stored with its finalizer. *)
C3_FinalizerRemoval ==
    /\ [][FinalizerRemoved =>
             \/ <<"Instances.Get", "notfound">> \in rLog'
             \/ <<"Instances.Delete", "ok">> \in rLog']_vars
    /\ [](DeleteInstanceFailed => (rPc = "idle" /\ rErr # NoError /\ StoreHasFinalizer))

\* The instance was deleted and then the finalizer removed: the resource is
\* gone from the store.
C3_Witness ==
    /\ rStore = NilPtr
    /\ rRemote = NilPtr
    /\ <<"Instances.Get", "found">> \in rLog
    /\ <<"Instances.Delete", "ok">> \in rLog
    /\ <<"Patch.removeFinalizer", "ok">> \in rLog

\* The stored resource holds the condition Created=True.
PersistedCreated ==
    /\ rStore # NilPtr
    /\ ConditionIs(Deref(rStore).conds, ConditionTypeCreated, ConditionTrue,
                   Reason.InstanceCreated)

(* C5: as long as no call has failed, the creation of the instance has been
   requested at most once; and once a pass that made remote calls for a
   resource not being deleted has ended, it has been requested exactly once
   and the stored resource holds Created=True. *)
C5_CreateOnce ==
    rFails = 0 =>
        /\ rCreates <= 1
        /\ (rPc = "idle" /\ PassNotDeleting /\ RemoteCallsIn(rLog) # {}) =>
              /\ rCreates = 1
              /\ rStore # NilPtr => PersistedCreated

\* With no call failed, a pass later than the one that created the instance
\* has found it up to date, and Created=True is still stored.
C5_Witness ==
    /\ rFails = 0
    /\ rCreates = 1
    /\ rPc = "idle"
    /\ <<"Instances.Insert", "ok">> \notin rLog
    /\ PersistedCreated
    /\ ConditionIs(Deref(rStore).conds, ConditionTypeUpToDate, ConditionTrue,
                   Reason.InstanceUpToDate)

(* C36: whenever the secret holds a password, it is the password that the
   worker has last set on the remote user, whichever of the remote calls and
   of the writes of the secret have failed. *)
C36_SecretMatchesRemote ==
    (rSecret # NilPtr /\ Deref(rSecret) # 0) => Deref(rSecret) = rRemotePw

\* A first password was set on the remote user and the write of the secret
\* failed; a later pass has set a second one and written it to the secret.
C36_Witness ==
    /\ rPwSets = 2
    /\ rRemotePw = 2
    /\ rSecret = Ptr(2)
    /\ ~rCleared

\* The worker calls Instances.Delete in this step.
DeleteRequested ==
    \E outcome \in {"ok", "error"} : <<"Instances.Delete", outcome>> \in rLog' \ rLog

\* The stored resource gets its deletion timestamp in this step.
DeletionAdmitted ==
    /\ rStore # NilPtr
    /\ ~Deref(rStore).deleting
    /\ rStore' # NilPtr
    /\ Deref(rStore').deleting

(* C39: the worker calls Instances.Delete only in a pass for a resource
   that it read with a deletion timestamp, and a resource gets its deletion
   timestamp only when a DELETE request for it is allowed, which takes the
   allow-deletion annotation of the stored resource to be "true" then. *)
C39_DeleteOnlyAdmitted ==
    /\ [][ DeleteRequested => (rI # NilPtr /\ Deref(rI).deleting) ]_vars
    /\ [][ DeletionAdmitted =>
              ( /\ ~IsNil(Deref(rStore).obj.anno)
                /\ Deref(Deref(rStore).obj.anno) = True ) ]_vars

\* The instance of a resource whose deletion was allowed has been deleted.
C39_Witness ==
    /\ <<"Instances.Delete", "ok">> \in rLog
    /\ rRemote = NilPtr
    /\ rI # NilPtr
    /\ Deref(rI).deleting
    /\ Deref(Deref(rI).obj.anno) = True

\* The worker has created the instance in this pass.
InstanceInserted == <<"Instances.Insert", "ok">> \in rLog

\* The stored resource has the condition Created with status True.
CreatedPersisted ==
    /\ rStore # NilPtr
    /\ HasCondition(Deref(rStore).conds, ConditionTypeCreated)
    /\ GetCondition(Deref(rStore).conds, ConditionTypeCreated).status = ConditionTrue

(* C38 as stated: once the worker has created the instance of a resource,
   the stored resource eventually has the condition Created with status
   True, unless the resource is deleted. *)
C38_AsStated ==
    InstanceInserted
        ~> (CreatedPersisted \/ rStore = NilPtr \/ Deref(rStore).deleting)

\* The deletion of the resource has been admitted, and the resource carries
\* the finalizer.
DeletePending ==
    /\ rStore # NilPtr
    /\ Deref(rStore).deleting
    /\ Deref(rStore).finalizer

(* C40: once the deletion of a resource that carries the finalizer has been
   admitted, the calls failing a bounded number of times and the worker
   being handed the key again and again, the instance is eventually deleted
   and the finalizer removed, on which the store lets go of the resource. *)
C40_DeletionCompletes ==
    DeletePending ~> (rRemote = NilPtr /\ rStore = NilPtr)

\* The deletion was admitted while the instance existed, the deletion of
\* the instance failed once, and a later pass has deleted the instance and
\* removed the finalizer.
C40_Witness ==
    /\ rStore = NilPtr
    /\ rRemote = NilPtr
    /\ rFails = MaxFailures
    /\ rLog = { <<"Instances.Get", "notfound">>, <<"Patch.removeFinalizer", "ok">> }

(* C8 as stated: unless the password of the secret has been emptied by
   someone else, a password is set on the remote user at most once. *)
C8_AsStated == ~rCleared => rPwSets <= 1

(* C8: a password is set on the remote user only while the secret holds
   none; a password held by the secret is the last one set, so that none is
   set after it was stored unless it is emptied by someone else; and, while
   it has not been emptied, the passwords set are at most one more than the
   calls that failed.  (A pass whose write to the secret fails after the
   remote call has succeeded leaves the secret empty, and the next pass
   sets another password.) *)
C8_PasswordOnce ==
    /\ [][rPwSets' # rPwSets => (rSecret # NilPtr /\ Deref(rSecret) = 0)]_vars
    /\ []((rSecret # NilPtr /\ Deref(rSecret) # 0) =>
             (Deref(rSecret) = rPwSets /\ rRemotePw = rPwSets))
    /\ [](~rCleared => rPwSets <= 1 + rFails)

\* A pass found the password that an earlier pass had stored in the secret,
\* and set none.
C8_Witness ==
    /\ rPc = "idle"
    /\ rPwSets = 1
    /\ rSecret = Ptr(1)
    /\ rRemotePw = 1
    /\ <<"Secrets.Get", "found">> \in rLog
    /\ \A c \in rLog : c[1] # "Users.Update"

\* The worker is in a pass, or has ended one, whose working copy is paused.
PassPaused == rP # NilPtr /\ Deref(rP).obj.paused

StatusUntouched ==
    /\ rPc # "statusPatch"
    /\ \A c \in rLog : c[1] # "Patch.status"
    /\ rStore # NilPtr => Deref(rStore).conds = Deref(rI).conds

\* The pass is for a resource that the worker read with a deletion
\* timestamp.
PassDeleting == rI # NilPtr /\ Deref(rI).deleting

(* C23: in a pass for a resource read with its deletion timestamp set, the
   worker is only ever at the lookup or the deletion of the instance or at
   the removal of the finalizer, and these are the only calls it makes: no
   creation, no settings update, no password, no read or write of the
   secret, no patch of the status, whose conditions stay as they were;
   with the finalizer gone, it makes no call at all. *)
C23_DeletingShortCircuits ==
    PassDeleting =>
        /\ rPc \in {"idle", "delGet", "delete", "patchRemove"}
        /\ \A c \in rLog :
              c[1] \in {"Instances.Get", "Instances.Delete", "Patch.removeFinalizer"}
        /\ StatusUntouched
        /\ Deref(rP).conds = Deref(rI).conds
        /\ ~Deref(rI).finalizer => (rPc = "idle" /\ rLog = {})

\* A pass for a resource being deleted that carried the finalizer has
\* deleted the instance and removed the finalizer, nothing else.
C23_Witness ==
    /\ PassDeleting
    /\ Deref(rI).finalizer
    /\ rPc = "idle"
    /\ rLog = { <<"Instances.Get", "found">>, <<"Instances.Delete", "ok">>,
                <<"Patch.removeFinalizer", "ok">> }
    /\ rSecret # NilPtr

\* A pass for a resource being deleted without the finalizer has ended
\* without any call.
C23_WitnessNoFinalizer ==
    /\ PassDeleting
    /\ ~Deref(rI).finalizer
    /\ rPc = "idle"
    /\ rI = rStore
    /\ rLog = {}

\* Where the worker is in the body of a pass, past the check of the pause
\* and before the deferred patch of the status.
BodySteps ==
    {"get", "insert", "getAfterInsert", "opList", "secretGet", "secretCreate",
     "usersUpdate", "secretUpdate", "update", "getAfterUpdate"}

\* The patches of the status that a log holds.
StatusPatchesIn(log) == {c \in log : c[1] = "Patch.status"}

\* This step is the deferred patch of the status, which ends the pass.
DeferredPatch == rPc = "statusPatch" /\ rPc' = "idle"

(* C24: a pass past the check of the pause leaves its body only for the
   deferred patch of the status, whether the body ended with an error or
   not, and the status is patched by no other step and at most once in a
   pass. If the pass changed the conditions, the deferred step sends exactly
   one patch, and the store holds the conditions of the working copy once
   the patch succeeds. The pass returns the error of the body if the patch
   succeeds or is not needed, and an error that holds the error of the patch
   and the error of the body if the patch fails. *)
C24_DeferredStatusPatch ==
    [][ /\ rPc \in BodySteps => rPc' \in BodySteps \cup {"statusPatch"}
        /\ StatusPatchesIn(rLog') \ StatusPatchesIn(rLog) # {} =>
               (DeferredPatch /\ StatusPatchesIn(rLog) = {})
        /\ DeferredPatch =>
               /\ Cardinality(StatusPatchesIn(rLog')) <= 1
               /\ Deref(rP).conds # Deref(rI).conds =>
                      Cardinality(StatusPatchesIn(rLog')) = 1
               /\ <<"Patch.status", "ok">> \in rLog' =>
                      (Deref(rStore').conds = Deref(rP).conds /\ rErr' = rErr)
               /\ StatusPatchesIn(rLog') = {} => rErr' = rErr
               /\ StatusPatchesIn(rLog') \ {<<"Patch.status", "ok">>} # {} =>
                      (rErr' = rErr \cup {"Patch.status"} /\ rStore' = rStore)
      ]_vars

\* A pass has ended in which the creation of the instance failed, the
\* condition saying so was set, and the patch of the status failed too: the
\* error returned holds both failures.
C24_Witness ==
    /\ rPc = "idle"
    /\ PassNotDeleting
    /\ rLog = { <<"Instances.Get", "notfound">>, <<"Instances.Insert", "error">>,
                <<"Patch.status", "error">> }
    /\ ConditionIs(Deref(rP).conds, ConditionTypeCreated, ConditionFalse,
                   Reason.UnexpectedError)
    /\ rErr = {"Patch.status", "Instances.Insert"}

\* The creation of the instance was requested in this pass and ended as
\* outcome says.
InsertEnded(outcome) == <<"Instances.Insert", outcome>> \in rLog

\* This step is the request for the creation of the instance, which ends as
\* outcome says.
InsertEnds(outcome) ==
    rPc = "insert" /\ rPc' # "insert" /\ <<"Instances.Insert", outcome>> \in rLog'

\* The reason that createInstance gives for a failure of the creation.
CreateFailureReason ==
    [ conflict |-> Reason.NameUnavailable, badrequest |-> Reason.InvalidSpec,
      error |-> Reason.UnexpectedError ]

(* C25: when the request for the creation of the instance fails, the worker
   sets Created=False with the reason NameUnavailable on a conflict,
   InvalidSpec on an invalid request and UnexpectedError on any other error,
   leaves the remote side alone, and returns the error only in the last
   case; only the deferred patch of the status is left of the pass, which
   makes none of the later calls. *)
C25_CreateFailureClassified ==
    /\ [][ \A o \in DOMAIN CreateFailureReason :
              InsertEnds(o) =>
                 /\ rPc' = "statusPatch"
                 /\ ConditionIs(Deref(rP').conds, ConditionTypeCreated,
                                ConditionFalse, CreateFailureReason[o])
                 /\ rErr' = (IF o = "error" THEN {"Instances.Insert"} ELSE NoError)
                 /\ rRemote' = rRemote
          ]_vars
    /\ [](\A o \in DOMAIN CreateFailureReason :
              InsertEnded(o) =>
                 /\ rPc \in {"statusPatch", "idle"}
                 /\ {c[1] : c \in rLog} \subseteq
                        {"Patch.addFinalizer", "Instances.Get", "Instances.Insert",
                         "Patch.status"}
                 /\ rErr \ {"Patch.status"} =
                        (IF o = "error" THEN {"Instances.Insert"} ELSE NoError))

\* A pass has ended in which the creation met a conflict: the store holds
\* Created=False/NameUnavailable and no error was returned.
C25_Witness ==
    /\ rPc = "idle"
    /\ InsertEnded("conflict")
    /\ <<"Patch.status", "ok">> \in rLog
    /\ ConditionIs(Deref(rStore).conds, ConditionTypeCreated, ConditionFalse,
                   Reason.NameUnavailable)
    /\ rErr = NoError

\* This step is the request for the update of the instance, which ends as
\* outcome says.
UpdateEnds(outcome) ==
    rPc = "update" /\ rPc' # "update" /\ <<"Instances.Update", outcome>> \in rLog'

\* The reason that maybeUpdateInstance gives for a failure of the update.
UpdateFailureReason ==
    [ conflict |-> Reason.Conflict, badrequest |-> Reason.InvalidSpec,
      error |-> Reason.UnexpectedError ]

(* C26: when the request for the update of the settings fails, the worker
   sets UpToDate=False with the reason Conflict on a conflict and
   InvalidSpec on an invalid request, and returns no error in these two
   cases; on any other error it returns the error (having set
   UpToDate=False/UnexpectedError). The remote side is left alone and the
   pass goes to the deferred patch of the status. *)
C26_UpdateFailureClassified ==
    [][ \A o \in DOMAIN UpdateFailureReason :
           UpdateEnds(o) =>
              /\ rPc' = "statusPatch"
              /\ ConditionIs(Deref(rP').conds, ConditionTypeUpToDate,
                             ConditionFalse, UpdateFailureReason[o])
              /\ rErr' = (IF o = "error" THEN {"Instances.Update"} ELSE NoError)
              /\ rRemote' = rRemote
      ]_vars

\* A pass has ended in which the update met a conflict: the store holds
\* UpToDate=False/Conflict and no error was returned.
C26_Witness ==
    /\ rPc = "idle"
    /\ <<"Instances.Update", "conflict">> \in rLog
    /\ <<"Patch.status", "ok">> \in rLog
    /\ ConditionIs(Deref(rStore).conds, ConditionTypeUpToDate, ConditionFalse,
                   Reason.Conflict)
    /\ rErr = NoError

\* This step is the listing of the operations of the instance, which
\* succeeds.
OperationsListed ==
    rPc = "opList" /\ rPc' # "opList" /\ <<"Operations.List", "ok">> \in rLog'

\* The calls of the steps on the credentials and on the drift.
CredentialsAndDriftCalls ==
    {"Secrets.Get", "Secrets.Create", "Secrets.Update", "Users.Update",
     "Instances.Update"}

\* Where the worker is in the steps on the credentials and on the drift.
CredentialsAndDriftSteps ==
    {"secretGet", "secretCreate", "usersUpdate", "secretUpdate", "update",
     "getAfterUpdate"}

\* The pass has listed the operations and has set on its working copy the
\* Ready condition with this status and reason.
PassSetReady(status, reason) ==
    /\ rP # NilPtr
    /\ <<"Operations.List", "ok">> \in rLog
    /\ ConditionIs(Deref(rP).conds, ConditionTypeReady, status, reason)

\* The pass has made no call on the credentials or the drift, and is at its
\* deferred patch or has ended.
StoppedBeforeCredentials ==
    /\ rPc \in {"statusPatch", "idle"}
    /\ {c[1] : c \in rLog} \cap CredentialsAndDriftCalls = {}

(* C27: when the operations are listed and the last one is still pending,
   the worker sets Ready=False/OperationInProgress; when the last one is done
   with errors, it sets Ready=False/UnexpectedError with the messages of the
   provider; in both cases it returns no error and goes to the deferred
   patch, and the pass has made and makes no call on the credentials or the
   drift. *)
C27_OperationPendingOrFailed ==
    /\ [][ OperationsListed =>
             /\ Deref(rRemote).op = "PENDING" =>
                    /\ ConditionIs(Deref(rP').conds, ConditionTypeReady,
                                   ConditionFalse, Reason.OperationInProgress)
                    /\ rErr' = NoError
                    /\ rPc' = "statusPatch"
             /\ Deref(rRemote).op = "FAILED" =>
                    /\ ConditionIs(Deref(rP').conds, ConditionTypeReady,
                                   ConditionFalse, Reason.UnexpectedError)
                    /\ GetCondition(Deref(rP').conds, ConditionTypeReady).message
                           = isOperationInProgressOrFailed("FAILED").errorMessage
                    /\ rErr' = NoError
                    /\ rPc' = "statusPatch"
          ]_vars
    /\ []((\/ PassSetReady(ConditionFalse, Reason.OperationInProgress)
           \/ PassSetReady(ConditionFalse, Reason.UnexpectedError))
              => (StoppedBeforeCredentials /\ rErr \ {"Patch.status"} = NoError))

\* A pass for an instance that had run has ended at an operation that
\* failed: the store holds Ready=False/UnexpectedError, no error was
\* returned, and the drift that the failed update was to correct is left.
C27_Witness ==
    /\ rPc = "idle"
    /\ rRemote # NilPtr
    /\ Deref(rRemote).op = "FAILED"
    /\ Deref(rRemote).inst.state = "RUNNABLE"
    /\ <<"Operations.List", "ok">> \in rLog
    /\ <<"Patch.status", "ok">> \in rLog
    /\ ConditionIs(Deref(rStore).conds, ConditionTypeReady, ConditionFalse,
                   Reason.UnexpectedError)
    /\ rErr = NoError

\* What the pass read says that the instance is running: its state is the
\* running one and its activation policy is always-on.
ReadRunning ==
    /\ rInst # NilPtr
    /\ Deref(rInst).state = "RUNNABLE"
    /\ Deref(rInst).activationPolicy = "ALWAYS"

(* C28: when the operations are listed, the worker sets Ready=True and goes
   on to the credentials exactly if the last operation is done without
   errors (or there is none) and the instance it read is in the running
   state with the activation policy always-on; if the operation is fine but
   the state or the policy is not, it sets Ready=False/InstanceNotReady,
   returns no error and goes to the deferred patch. The worker is at a step
   on the credentials or the drift, or has made a call of these steps, only
   in a pass that set Ready=True so. *)
C28_ReadyGate ==
    /\ [][ OperationsListed =>
             LET fine == Deref(rRemote).op \in {"none", "DONE"}
             IN /\ (fine /\ ReadRunning) <=> rPc' = "secretGet"
                /\ (fine /\ ReadRunning) <=>
                       ConditionIs(Deref(rP').conds, ConditionTypeReady,
                                   ConditionTrue, Reason.InstanceReady)
                /\ (fine /\ ~ReadRunning) =>
                       /\ ConditionIs(Deref(rP').conds, ConditionTypeReady,
                                      ConditionFalse, Reason.InstanceNotReady)
                       /\ rErr' = NoError
                       /\ rPc' = "statusPatch"
          ]_vars
    /\ [][ rPc' \in CredentialsAndDriftSteps =>
             (rPc \in CredentialsAndDriftSteps \/ OperationsListed) ]_vars
    /\ [](PassSetReady(ConditionFalse, Reason.InstanceNotReady)
              => (StoppedBeforeCredentials /\ rErr \ {"Patch.status"} = NoError))
    /\ []((\/ rPc \in CredentialsAndDriftSteps
           \/ {c[1] : c \in rLog} \cap CredentialsAndDriftCalls # {})
              => PassSetReady(ConditionTrue, Reason.InstanceReady))

\* A pass has ended for an instance whose last operation is done and that
\* is in the running state but was shut down: the store holds
\* Ready=False/InstanceNotReady after having held the password, and no error
\* was returned.
C28_Witness ==
    /\ rPc = "idle"
    /\ rInst # NilPtr
    /\ Deref(rInst).state = "RUNNABLE"
    /\ Deref(rInst).activationPolicy = "NEVER"
    /\ Deref(rRemote).op = "DONE"
    /\ <<"Operations.List", "ok">> \in rLog
    /\ <<"Patch.status", "ok">> \in rLog
    /\ StoppedBeforeCredentials
    /\ ConditionIs(Deref(rStore).conds, ConditionTypeReady, ConditionFalse,
                   Reason.InstanceNotReady)
    /\ rPwSets = 1
    /\ rErr = NoError

\* The stored resource was modified by someone else after the worker read
\* it, or received it from the store: the worker's objects are older.
StaleBase == rStore # NilPtr /\ Deref(rStore).resourceVersion = "newer"

\* This step is the deferred patch of the status, and a patch is sent.
StatusPatchSent == DeferredPatch /\ rP # rI /\ rStore # NilPtr

(* C31 as stated: a patch of the status made from objects older than the
   stored resource is rejected by the store, and the pass returns an
   error. *)
C31_AsStated ==
    [][ (StatusPatchSent /\ StaleBase) =>
           (<<"Patch.status", "conflict">> \in rLog' /\ rErr' # NoError) ]_vars

(* C31: a patch of the status made from objects older than the stored
   resource holds no resource version, unless the pass persisted the
   finalizer and so holds the resource that the store returned. Without a
   version the patch is not rejected for being stale: when the store applies
   it, the pass returns what its body returned, the store holds the
   conditions of the working copy and keeps the object as modified. With a
   version it is rejected, the store is left alone and the pass returns an
   error that holds the failure of the patch. *)
C31_StalePatch ==
    [][ (StatusPatchSent /\ StaleBase) =>
           IF "resourceVersion" \in PatchedFields(Deref(rI), Deref(rP))
           THEN /\ <<"Patch.addFinalizer", "ok">> \in rLog
                /\ <<"Patch.status", "conflict">> \in rLog'
                /\ "Patch.status" \in rErr'
                /\ rStore' = rStore
           ELSE /\ <<"Patch.status", "conflict">> \notin rLog'
                /\ <<"Patch.status", "ok">> \in rLog' =>
                       /\ rErr' = rErr
                       /\ Deref(rStore').conds = Deref(rP).conds
                       /\ Deref(rStore').obj = Deref(rStore).obj
      ]_vars

\* A pass that did not have to persist the finalizer has ended; the object
\* was modified in the store after the pass read it, and the patch of the
\* status was applied all the same, without an error.
C31_Witness ==
    /\ rPc = "idle"
    /\ PassNotDeleting
    /\ rStore # NilPtr
    /\ Deref(rStore).obj # Deref(rI).obj
    /\ "Patch.addFinalizer" \notin {c[1] : c \in rLog}
    /\ <<"Patch.status", "ok">> \in rLog
    /\ Deref(rStore).conds = Deref(rP).conds
    /\ Deref(rStore).conds # Deref(rI).conds
    /\ rErr = NoError

\* This step is a patch that the store applies.
PatchApplied ==
    \E call \in {"Patch.addFinalizer", "Patch.status"} :
        <<call, "ok">> \in rLog' \ rLog

\* What of the stored resource was modified after the pass read it: its
\* object (the specification and the annotations), finalizers of others.
ModifiedSinceRead ==
    {f \in {"obj", "others"} : Deref(rStore)[f] # Deref(rI)[f]}

(* C32 as stated: when the store applies a patch of the worker, whatever was
   modified of the object and of the metadata of the resource after the pass
   read it is still in the store. *)
C32_AsStated ==
    [][ PatchApplied =>
           \A f \in ModifiedSinceRead : Deref(rStore')[f] = Deref(rStore)[f] ]_vars

(* C9 as stated: a pass for a paused resource makes no remote call and
   changes nothing of the status, whatever the rest of the resource. *)
C9_AsStated ==
    PassPaused => (~AtRemoteCall /\ RemoteCallsIn(rLog) = {} /\ StatusUntouched)

(* C9: a pass for a paused resource changes nothing of the status, and
   makes no remote call unless the resource is being deleted (the pause is
   looked at after the deletion branch, in which the instance is looked up
   and deleted). *)
C9_PausedNoCalls ==
    PassPaused =>
        /\ StatusUntouched
        /\ ~Deref(rI).deleting => (~AtRemoteCall /\ RemoteCallsIn(rLog) = {})

\* A pass for a paused resource, whose disk the remote instance does not
\* have yet, has ended having called nothing.
C9_Witness ==
    /\ rPc = "idle"
    /\ PassPaused
    /\ rP = rStore
    /\ ~Deref(rP).deleting
    /\ rLog = {}
    /\ Deref(rP).obj.sizeMin = Ptr(20)
    /\ rRemote # NilPtr
    /\ Deref(rRemote).inst.settings.dataDiskSizeGb = 10

\* The status in the store holds Ready=True, and the remote instance exists.
PersistedReady ==
    /\ rStore # NilPtr
    /\ rRemote # NilPtr
    /\ ConditionIs(Deref(rStore).conds, ConditionTypeReady, ConditionTrue,
                   Reason.InstanceReady)

\* The remote instance has an address of the given type.
HasAddress(type) ==
    \E i \in 1..Len(RemoteReport(Deref(rRemote).inst).ipAddresses) :
        RemoteReport(Deref(rRemote).inst).ipAddresses[i].type = type

(* C19 as stated: once Ready=True is in the stored status, the stored status
   holds a private address exactly when the remote instance has one, a
   public address exactly when the remote instance has one, and the
   connection name of the remote instance. *)
C19_AsStated ==
    PersistedReady =>
        /\ Deref(rStore).ips.privateIP # ""
               <=> HasAddress(DatabaseInstanceIPAddressType.Private)
        /\ Deref(rStore).ips.publicIP # ""
               <=> HasAddress(DatabaseInstanceIPAddressType.Public)
        /\ Deref(rStore).connectionName
               = RemoteReport(Deref(rRemote).inst).connectionName
-----------------------------------------------------------------------------
(* SpecBoot: the replicas of the operator register the admission webhook *)

mutatingWebhookConfigurationResourceName == "cloudsql-postgres-operator"
podPlural == "pods"
podWebhookName == "pod.cloudsql.travelaudience.com"
postgresqlInstanceWebhookName == "postgresqlinstance.cloudsql.travelaudience.com"
podFailurePolicy == "Ignore"
postgresInstanceFailurePolicy == "Fail"

\* A certificate is known by the replica that generated it and by which of
\* the starts of that replica it was; <<0, 0>> is one of an earlier run.
EarlierCertificate == <<0, 0>>

\* The data of a secret that holds no certificate and key that parse.
Garbage == <<>>

\* tls.X509KeyPair fails on the data of the secret.
X509KeyPairFails(data) == data = Garbage

\* The webhooks of the configuration to register: one for pods and one for
\* PostgresqlInstance resources, each with the certificate served as the
\* bundle of certificate authorities.
buildMutatingWebhookConfigurationObject(tlsCertificate) ==
    << [name |-> podWebhookName,
        operations |-> <<"CREATE">>,
        resources |-> <<podPlural>>,
        caBundle |-> tlsCertificate,
        failurePolicy |-> podFailurePolicy],
       [name |-> postgresqlInstanceWebhookName,
        operations |-> <<"CREATE", "UPDATE", "DELETE">>,
        resources |-> <<"postgresqlinstances">>,
        caBundle |-> tlsCertificate,
        failurePolicy |-> postgresInstanceFailurePolicy] >>

\* The webhooks registered by a version of the operator that did not handle
\* the deletion of PostgresqlInstance resources.
WebhooksWithoutDelete(tlsCertificate) ==
    [buildMutatingWebhookConfigurationObject(tlsCertificate)
        EXCEPT ![2].operations = <<"CREATE", "UPDATE">>]

\* The comparison of Register that ignores the bundles.
WebhooksMatchButForBundle(current, desired) ==
    /\ Len(current) = Len(desired)
    /\ \A k \in DOMAIN current :
           [current[k] EXCEPT !.caBundle = <<>>] = [desired[k] EXCEPT !.caBundle = <<>>]

\* Whether the webhooks read from the store are the desired ones.
WebhooksMatch(current, desired) == current = desired

\* A Create that replaces what is stored.
CreateOutcomesReplacing(stored) == {"ok", "error"}

\* How a Create call may end, by what is stored.
CreateOutcomes(stored) ==
    IF stored = NilPtr THEN {"ok", "error"} ELSE {"alreadyexists", "error"}

\* How the Update of the configuration read may end, by what is stored.
UpdateOutcomes(current, stored) ==
    IF stored = NilPtr THEN {"notfound"}
    ELSE IF Deref(stored).resourceVersion # current.resourceVersion
    THEN {"conflict"}
    ELSE {"ok", "error"}

\* The configuration as stored after a write.
StoredCfg(webhooks, version) ==
    Ptr([webhooks |-> webhooks, resourceVersion |-> version])

InitBoot ==
    /\ tlsSecret \in {NilPtr, Ptr(EarlierCertificate), Ptr(Garbage)}
    /\ whCfg \in {NilPtr,
                  StoredCfg(buildMutatingWebhookConfigurationObject(EarlierCertificate), 0),
                  StoredCfg(WebhooksWithoutDelete(EarlierCertificate), 0)}
    /\ boot = [r \in Replicas |-> NotStarted]
    /\ tlsWrites = 0
    /\ whWrites = 0
    /\ CondIdle
    /\ AdmIdle
    /\ DriftIdle
    /\ ReconIdle
    /\ PodIdle
    /\ HTTPIdle
    /\ NamesIdle

\* Register returns an error: the process ends.
RegisterFailed(r) == boot' = [boot EXCEPT ![r].pc = "failed"]

\* ensureTLSSecret has returned the secret: Register parses it and keeps
\* the certificate for serving.
SecretReturned(r, data) ==
    IF X509KeyPairFails(data)
    THEN RegisterFailed(r)
    ELSE boot' = [boot EXCEPT ![r].pc = "cfg.create",
                              ![r].tlsCertificate = Ptr(data)]

\* A replica starts (again, once its process has ended): it enters Register
\* and ensureTLSSecret generates a certificate.
BootStart ==
    \E r \in Replicas :
        /\ boot[r].pc \in {"idle", "done", "failed"}
        /\ boot[r].starts < MaxStarts
        /\ boot' = [boot EXCEPT ![r] = [pc |-> "secret.create",
                                        starts |-> boot[r].starts + 1,
                                        gen |-> Ptr(<<r, boot[r].starts + 1>>),
                                        tlsCertificate |-> NilPtr,
                                        currentCfg |-> NilPtr,
                                        wrote |-> "none"]]
        /\ UNCHANGED <<tlsSecret, whCfg, tlsWrites, whWrites, notBoot>>

\* ensureTLSSecret creates the secret with the certificate generated.
TLSSecretCreate ==
    \E r \in Replicas :
        /\ boot[r].pc = "secret.create"
        /\ \E outcome \in CreateOutcomes(tlsSecret) :
               CASE outcome = "ok" ->
                        /\ tlsSecret' = boot[r].gen
                        /\ tlsWrites' = tlsWrites + 1
                        /\ SecretReturned(r, Deref(boot[r].gen))
                 [] outcome = "alreadyexists" ->
                        /\ boot' = [boot EXCEPT ![r].pc = "secret.get"]
                        /\ UNCHANGED <<tlsSecret, tlsWrites>>
                 [] OTHER ->
                        /\ RegisterFailed(r)
                        /\ UNCHANGED <<tlsSecret, tlsWrites>>
        /\ UNCHANGED <<whCfg, whWrites, notBoot>>

\* ensureTLSSecret reads the secret that exists already.
TLSSecretGet ==
    \E r \in Replicas :
        /\ boot[r].pc = "secret.get"
        /\ \E outcome \in {"ok", "error"} :
               IF outcome = "ok" /\ tlsSecret # NilPtr
               THEN SecretReturned(r, Deref(tlsSecret))
               ELSE RegisterFailed(r)
        /\ UNCHANGED <<tlsSecret, whCfg, tlsWrites, whWrites, notBoot>>

\* Register creates the configuration.
CfgCreate ==
    \E r \in Replicas :
        /\ boot[r].pc = "cfg.create"
        /\ \E outcome \in CreateOutcomes(whCfg) :
               CASE outcome = "ok" ->
                        /\ whCfg' = StoredCfg(buildMutatingWebhookConfigurationObject(
                                                  Deref(boot[r].tlsCertificate)),
                                              whWrites + 1)
                        /\ whWrites' = whWrites + 1
                        /\ boot' = [boot EXCEPT ![r].pc = "done",
                                                ![r].wrote = "create"]
                 [] outcome = "alreadyexists" ->
                        /\ boot' = [boot EXCEPT ![r].pc = "cfg.get"]
                        /\ UNCHANGED <<whCfg, whWrites>>
                 [] OTHER ->
                        /\ RegisterFailed(r)
                        /\ UNCHANGED <<whCfg, whWrites>>
        /\ UNCHANGED <<tlsSecret, tlsWrites, notBoot>>

\* Register reads the configuration that exists already and compares its
\* webhooks with the desired ones.
CfgGet ==
    \E r \in Replicas :
        /\ boot[r].pc = "cfg.get"
        /\ \E outcome \in {"ok", "error"} :
               IF outcome = "ok" /\ whCfg # NilPtr
               THEN boot' = [boot EXCEPT
                       ![r].currentCfg = whCfg,
                       ![r].pc =
                           IF WebhooksMatch(
                                  Deref(whCfg).webhooks,
                                  buildMutatingWebhookConfigurationObject(
                                      Deref(boot[r].tlsCertificate)))
                           THEN "done" ELSE "cfg.update"]
               ELSE RegisterFailed(r)
        /\ UNCHANGED <<tlsSecret, whCfg, tlsWrites, whWrites, notBoot>>

\* Register updates the configuration it read with the desired webhooks.
CfgUpdate ==
    \E r \in Replicas :
        /\ boot[r].pc = "cfg.update"
        /\ \E outcome \in UpdateOutcomes(Deref(boot[r].currentCfg), whCfg) :
               IF outcome = "ok"
               THEN /\ whCfg' = StoredCfg(buildMutatingWebhookConfigurationObject(
                                              Deref(boot[r].tlsCertificate)),
                                          whWrites + 1)
                    /\ whWrites' = whWrites + 1
                    /\ boot' = [boot EXCEPT ![r].pc = "done",
                                            ![r].wrote = "update"]
               ELSE /\ RegisterFailed(r)
                    /\ UNCHANGED <<whCfg, whWrites>>
        /\ UNCHANGED <<tlsSecret, tlsWrites, notBoot>>

NextBoot ==
    \/ BootStart \/ TLSSecretCreate \/ TLSSecretGet
    \/ CfgCreate \/ CfgGet \/ CfgUpdate

SpecBoot == InitBoot /\ [][NextBoot]_vars

\* The replicas for which Register has returned no error.
Registered == {r \in Replicas : boot[r].pc = "done"}

\* The desired webhooks of a replica that has a certificate to serve.
DesiredWebhooks(r) ==
    buildMutatingWebhookConfigurationObject(Deref(boot[r].tlsCertificate))

\* Register returns no error to replica r in this step.
RegisterReturns(r) == boot[r].pc # "done" /\ boot'[r].pc = "done"

(* C33: once Register has returned no error to a replica, the configuration
   stored has exactly the desired webhooks, whose bundle is the certificate
   that the replica serves.  The call that returns has created the
   configuration if there was none, has replaced its webhooks if they
   differed from the desired ones and has written nothing if they were the
   desired ones; hence the configuration is written once at most, however
   many times replicas register. *)
C33_Registered ==
    /\ [](\A r \in Registered :
              /\ whCfg # NilPtr
              /\ Deref(whCfg).webhooks = DesiredWebhooks(r)
              /\ \A k \in DOMAIN Deref(whCfg).webhooks :
                     Deref(whCfg).webhooks[k].caBundle = Deref(boot[r].tlsCertificate))
    /\ [][ \A r \in Replicas :
              RegisterReturns(r) =>
                  IF whCfg = NilPtr
                  THEN whCfg' # NilPtr /\ boot'[r].wrote = "create"
                  ELSE IF Deref(whCfg).webhooks # DesiredWebhooks(r)
                  THEN whCfg' # whCfg /\ boot'[r].wrote = "update"
                  ELSE whCfg' = whCfg /\ boot'[r].wrote = "none" ]_vars
    /\ [](whWrites <= 1)

\* A replica has created the configuration, and another one, and the first
\* one again after it, have registered without writing it.
C33_Witness ==
    \E r, q \in Registered :
        /\ r # q
        /\ boot[q].wrote = "none"
        /\ boot[r].wrote = "none"
        /\ boot[r].starts = 2
        /\ whWrites = 1
        /\ Deref(whCfg).webhooks[1].caBundle # EarlierCertificate

(* C34: the certificate held by the TLS secret is never replaced: of the
   certificates that the replicas generate, one at most is written to the
   secret; and every replica that has a certificate to serve serves the
   one that the secret holds. *)
C34_OneCertificate ==
    /\ [][tlsSecret # NilPtr => tlsSecret' = tlsSecret]_vars
    /\ [](tlsWrites <= 1)
    /\ [](\A r \in Replicas :
              boot[r].tlsCertificate # NilPtr => boot[r].tlsCertificate = tlsSecret)

\* Two replicas have generated a certificate each while there was no secret,
\* and both have registered with the one of them that was stored.
C34_Witness ==
    \E r, q \in Registered :
        /\ r # q
        /\ tlsSecret = boot[r].gen
        /\ boot[q].gen # tlsSecret
        /\ boot[q].tlsCertificate = tlsSecret
        /\ boot[r].tlsCertificate = tlsSecret
        /\ boot[r].starts = 1
        /\ boot[q].starts = 1
-----------------------------------------------------------------------------
(* SpecNames: resources are created through the webhook, and the reconciler
   creates their instances *)

\* An answer of the remote API that finds no instance.
InstancesGetNeverFound(name, remote) == "notfound"

\* The answer of the remote API to a lookup of an instance by name that
\* does not fail.
InstancesGetByName(name, remote) ==
    IF name \in remote THEN "found" ELSE "notfound"

\* The changes to the base object in the CREATE requests of SpecNames.
NamesEdits == { <<"name", "db-a">>, <<"name", "db-b">>, <<"name", "">> }

\* An instance of the project that the operator has not created may exist.
InitNames ==
    /\ nStored = [k \in ResourceNames |-> NilPtr]
    /\ nRemote \in {{}, {"db-b"}}
    /\ nResp = NilPtr
    /\ CondIdle
    /\ AdmIdle
    /\ DriftIdle
    /\ ReconIdle
    /\ PodIdle
    /\ HTTPIdle
    /\ BootIdle

\* The webhook handles a CREATE request for a resource that is not stored;
\* the resource is stored when the request is allowed.
NamesCreate ==
    \E k \in ResourceNames, e1 \in NamesEdits, e2 \in {<<"anno", NilPtr>>, <<"sizeMin", Ptr(5)>>},
       failed \in BOOLEAN :
        LET obj == ApplyEdit(ApplyEdit(BaseObject, e1), e2)
            lookup == IF failed THEN "error"
                      ELSE InstancesGetByName(obj.name, nRemote)
            r == validateAndMutatePostgresqlInstance(Ptr(obj), NilPtr, lookup)
        IN /\ nStored[k] = NilPtr
           /\ nResp' = Ptr([resource |-> k, obj |-> obj, lookup |-> lookup,
                            err |-> r.err])
           /\ nStored' = IF r.err = Err.None THEN [nStored EXCEPT ![k] = r.obj]
                         ELSE nStored
           /\ UNCHANGED <<nRemote, notNames>>

\* A pass of the reconciler for a stored resource finds no instance of its
\* name and creates it.
NamesReconcile ==
    \E k \in ResourceNames :
        /\ nStored[k] # NilPtr
        /\ Deref(nStored[k]).name \notin nRemote
        /\ nRemote' = nRemote \cup {Deref(nStored[k]).name}
        /\ UNCHANGED <<nStored, nResp, notNames>>

NextNames == NamesCreate \/ NamesReconcile

SpecNames == InitNames /\ [][NextNames]_vars

\* This step is the handling of a CREATE request.
NamesHandled == nResp' # nResp

(* C37 as stated: no two stored resources have the same spec.name. *)
C37_AsStated ==
    \A k, l \in ResourceNames :
        (k # l /\ nStored[k] # NilPtr /\ nStored[l] # NilPtr)
            => Deref(nStored[k]).name # Deref(nStored[l]).name

(* C37: a CREATE request is denied, as naming an instance in use, when its
   spec.name is valid and the name of an instance that exists in the remote
   API, and no CREATE request is allowed unless the remote API has answered
   that no instance of that name exists.  The resources stored are not
   looked at: when no instance of the name exists yet, the request is
   allowed if the object is otherwise valid, also when another stored
   resource has that spec.name. *)
C37_RemoteNameInUse ==
    [][ NamesHandled =>
          LET req == Deref(nResp')
          IN /\ (req.obj.name \in nRemote /\ req.lookup # "error")
                    => req.err = Err.NameInUse
             /\ req.err = Err.None
                    => (req.lookup = "notfound" /\ req.obj.name \notin nRemote)
             /\ ( /\ req.obj.name \in {"db-a", "db-b"} \ nRemote
                  /\ req.lookup # "error"
                  /\ IsNil(req.obj.sizeMin) )
                    => /\ req.err = Err.None
                       /\ nStored'[req.resource] # NilPtr ]_vars

\* Two stored resources have the same spec.name: the second one was created
\* before the instance of the first one was; and another request was denied
\* as its name was in use.
C37_Witness ==
    /\ nStored["one"] # NilPtr
    /\ nStored["two"] # NilPtr
    /\ Deref(nStored["one"]).name = Deref(nStored["two"]).name
    /\ Deref(nStored["one"]).name \in nRemote
    /\ nResp # NilPtr
    /\ Deref(nResp).resource = "two"
    /\ Deref(nResp).err = Err.None
====
